---- MODULE Spec2Model ----
(***************************************************************************)
(* Model of interpals-api: the login handshake of Session / SessionAsync   *)
(* (session.py), the Cookie store (cookie.py), the CSRF extractor          *)
(* (utils.py), the error tree (errors.py) and the HTTP transport adapter   *)
(* of Api / ApiAsync (api.py).                                             *)
(*                                                                         *)
(* A Python str is a sequence of text atoms.  An atom is a single          *)
(* character ("=", ";", " ", "a") or a literal the code looks for as a     *)
(* whole ("HttpOnly,", "/app/auth/logout"); the inputs never cut such a    *)
(* literal in the middle.  A dict is a sequence of <<key, value>> pairs in *)
(* insertion order.  The server is the environment: every response is      *)
(* drawn from a small set of scripted responses.                           *)
(***************************************************************************)
EXTENDS Integers, Sequences, FiniteSets, TLC

VARIABLES
    mode,        \* "sync": Session / Api, "async": SessionAsync / ApiAsync
    username,    \* argument of login
    password,    \* argument of login
    pc,          \* position of the login handshake
    cookie,      \* the Cookie object of the handshake (login, line 85)
    csrf_token,  \* value returned by _request_initial_page
    location,    \* Location header read at line 139
    requests,    \* every HTTP request issued so far, in order
    rootResp,    \* response to the site-root GET
    postResp,    \* response to the login POST
    locResp,     \* response to the redirect-follow GET
    result,      \* outcome of login: nothing yet, a Session, or a raised error
    apiCalls,    \* number of transport-adapter calls made
    apiArgs,     \* arguments of the last transport-adapter call
    apiResp,     \* response the server gave to the last adapter call
    apiResult,   \* outcome of the last adapter call
    sessObj,     \* the Session object that dump serializes
    file,        \* text of the file-like object of dump / load
    fileKeys,    \* the keys of a document written by hand
    storePc,     \* position of the dump / load scenario
    loaded,      \* outcome of Session.load
    jar,         \* a Cookie store that response headers are merged into
    jarPrev,     \* the store before the last merge
    jarHeaders,  \* the Set-Cookie inputs merged so far, each a list of pieces
    jarPc,       \* "idle", "merged", or "raised" after a merge raised
    jarErr,      \* the exception type a merge raised
    sPc,         \* position of the search generator
    sArgs,       \* options, limit and timeout given to search
    sOffset,     \* offset of search
    sUsers,      \* users of the page search iterates over
    sIdx,        \* index in sUsers of the user yielded last
    sParams,     \* params of search
    sBackend,    \* the pages the server has yet to give, and the rows given
    sLog,        \* what search and its consumer did, in order
    parserRun,   \* a parser call: its input and what it gave back
    methodRun,   \* one Api method run in both modes on one response
    chatRun,     \* a call of chat: its locals, the server, what it did
    concRun      \* operations run concurrently on one Api or Session class

vars == <<mode, username, password, pc, cookie, csrf_token, location, requests,
          rootResp, postResp, locResp, result, apiCalls, apiArgs, apiResp,
          apiResult, sessObj, file, fileKeys, storePc, loaded,
          jar, jarPrev, jarHeaders, jarPc, jarErr,
          sPc, sArgs, sOffset, sUsers, sIdx, sParams, sBackend, sLog,
          parserRun, methodRun, chatRun, concRun>>

loginVars == <<mode, username, password, pc, cookie, csrf_token, location,
               rootResp, postResp, locResp, result>>

apiVars == <<apiCalls, apiArgs, apiResp, apiResult>>

storeVars == <<sessObj, file, fileKeys, storePc, loaded>>

jarVars == <<jar, jarPrev, jarHeaders, jarPc, jarErr>>

searchVars == <<sPc, sArgs, sOffset, sUsers, sIdx, sParams, sBackend, sLog>>

lateVars == <<parserRun, methodRun, chatRun, concRun>>

otherVars == <<storeVars, jarVars, searchVars, lateVars>>

baseVars == <<loginVars, requests, apiVars, storeVars, jarVars, searchVars>>

-----------------------------------------------------------------------------
(* Bounds *)

MaxApiCalls == 1

-----------------------------------------------------------------------------
(* str helpers *)

\* str.find(ch): 0-based index of the first occurrence, -1 when absent
Find(s, ch) ==
    IF \E i \in 1..Len(s) : s[i] = ch
    THEN (CHOOSE i \in 1..Len(s) : s[i] = ch /\ \A j \in 1..(i-1) : s[j] # ch) - 1
    ELSE -1

\* s[:n] of Python, n may be negative
SliceTo(s, n) ==
    IF n >= 0 THEN SubSeq(s, 1, IF n < Len(s) THEN n ELSE Len(s))
    ELSE SubSeq(s, 1, IF Len(s) + n > 0 THEN Len(s) + n ELSE 0)

\* str.split(sep) for a one-atom separator: always at least one piece
RECURSIVE Split(_, _)
Split(s, sep) ==
    LET i == Find(s, sep)
    IN  IF i = -1 THEN <<s>>
        ELSE <<SubSeq(s, 1, i)>> \o Split(SubSeq(s, i + 2, Len(s)), sep)

\* str.strip(): drop leading and trailing whitespace
RECURSIVE Strip(_)
Strip(s) ==
    IF s = <<>> THEN s
    ELSE IF Head(s) = " " THEN Strip(Tail(s))
    ELSE IF s[Len(s)] = " " THEN Strip(SubSeq(s, 1, Len(s) - 1))
    ELSE s

\* "needle in text" for a one-atom needle
Contains(text, needle) == \E i \in 1..Len(text) : text[i] = needle

\* str.lower() on the header names the model uses
Lower(name) ==
    CASE name = "Set-Cookie" -> "set-cookie"
      [] name = "SET-COOKIE" -> "set-cookie"
      [] name = "Location"   -> "location"
      [] OTHER               -> name

\* sep.join(pieces)
RECURSIVE Join(_, _)
Join(sep, pieces) ==
    IF pieces = <<>> THEN <<>>
    ELSE IF Len(pieces) = 1 THEN pieces[1]
    ELSE pieces[1] \o sep \o Join(sep, Tail(pieces))

-----------------------------------------------------------------------------
(* dict helpers: a dict is a sequence of <<key, value>> pairs *)

HasKey(d, k) == \E i \in 1..Len(d) : d[i][1] = k

GetItem(d, k) == d[CHOOSE i \in 1..Len(d) : d[i][1] = k][2]

\* d[k] = v that leaves an existing key alone
SetItem_keepFirst(d, k, v) ==
    IF HasKey(d, k) THEN d ELSE Append(d, <<k, v>>)

\* d[k] = v: an existing key keeps its position, a new key goes last
SetItem(d, k, v) ==
    IF HasKey(d, k)
    THEN [i \in 1..Len(d) |-> IF d[i][1] = k THEN <<k, v>> ELSE d[i]]
    ELSE Append(d, <<k, v>>)

\* dict.update(other)
RECURSIVE Update(_, _)
Update(d, other) ==
    IF other = <<>> THEN d
    ELSE Update(SetItem(d, other[1][1], other[1][2]), Tail(other))

-----------------------------------------------------------------------------
(* cookie.py *)

\* Cookie.as_string
as_string(c) ==
    Join(<<";", " ">>, [i \in 1..Len(c) |-> c[i][1] \o <<"=">> \o c[i][2]])

\* Cookie.parse_set_cookie: ok = FALSE is the ValueError of the tuple unpacking
parse_set_cookie(set_cookie) ==
    LET parts == Split(SliceTo(set_cookie, Find(set_cookie, ";")), "=")
    IN  IF Len(parts) = 2
        THEN [ok |-> TRUE, key |-> Strip(parts[1]), value |-> Strip(parts[2])]
        ELSE [ok |-> FALSE, key |-> <<>>, value |-> <<>>]

\* the inner loop that passes over a piece parse_set_cookie cannot unpack
RECURSIVE MergePieces_skip(_, _)
MergePieces_skip(obj, pieces) ==
    IF pieces = <<>> THEN [ok |-> TRUE, cookie |-> obj]
    ELSE LET kv == parse_set_cookie(Head(pieces))
         IN  IF kv.ok
             THEN MergePieces_skip(SetItem(obj, kv.key, kv.value), Tail(pieces))
             ELSE MergePieces_skip(obj, Tail(pieces))

\* the inner loop of from_response_headers over value.split("HttpOnly,")
RECURSIVE MergePieces(_, _)
MergePieces(obj, pieces) ==
    IF pieces = <<>> THEN [ok |-> TRUE, cookie |-> obj]
    ELSE LET kv == parse_set_cookie(Head(pieces))
         IN  IF kv.ok
             THEN MergePieces(SetItem(obj, kv.key, kv.value), Tail(pieces))
             ELSE [ok |-> FALSE, cookie |-> <<>>]

\* the outer loop of from_response_headers over headers.items()
RECURSIVE MergeHeaders(_, _)
MergeHeaders(obj, headers) ==
    IF headers = <<>> THEN [ok |-> TRUE, cookie |-> obj]
    ELSE IF Lower(headers[1][1]) = "set-cookie"
         THEN LET r == MergePieces(obj, Split(headers[1][2], "HttpOnly,"))
              IN  IF r.ok THEN MergeHeaders(r.cookie, Tail(headers)) ELSE r
         ELSE MergeHeaders(obj, Tail(headers))

\* Cookie.from_response_headers: ok = FALSE when parse_set_cookie raised
from_response_headers(headers) == MergeHeaders(<<>>, headers)

-----------------------------------------------------------------------------
(* utils.py *)

MetaOpen == "<meta name=\"csrf_token\" content=\""

\* re_csfr_token.search: the first MetaOpen that is followed, before any
\* newline, by a double quote; group(1) is the text in between ('.' does not
\* match a newline, '*?' is non-greedy)
MatchAt(html, i) ==
    /\ html[i] = MetaOpen
    /\ \E j \in (i+1)..Len(html) :
          /\ html[j] = "\""
          /\ \A k \in (i+1)..(j-1) : html[k] # "\n"

find_csrf_token(html) ==
    IF \E i \in 1..Len(html) : MatchAt(html, i)
    THEN LET i == CHOOSE i \in 1..Len(html) :
                     MatchAt(html, i) /\ \A h \in 1..(i-1) : ~MatchAt(html, h)
             j == CHOOSE j \in (i+1)..Len(html) :
                     html[j] = "\"" /\ \A k \in (i+1)..(j-1) : html[k] # "\""
         IN  [found |-> TRUE, token |-> SubSeq(html, i + 1, j - 1)]
    ELSE [found |-> FALSE, token |-> <<>>]

-----------------------------------------------------------------------------
(* errors.py *)

\* the base class of each exception type the model raises
Parent(type) ==
    CASE type = "InterpalsAPIError"            -> "Exception"
      [] type = "SessionError"                 -> "InterpalsAPIError"
      [] type = "APIError"                     -> "InterpalsAPIError"
      [] type = "NoCSRFTokenError"             -> "SessionError"
      [] type = "WrongUsernameOrPasswordError" -> "SessionError"
      [] type = "TooManyLoginAttemptsError"    -> "SessionError"
      [] type = "APITimeoutError"              -> "APIError"
      [] type = "APIAuthError"                 -> "APIError"
      [] type = "APIRedirectError"             -> "APIError"
      [] OTHER                                 -> "Exception"

\* isinstance(exc, cls)
RECURSIVE IsInstance(_, _)
IsInstance(type, cls) ==
    \/ type = cls
    \/ type # "Exception" /\ IsInstance(Parent(type), cls)

NoSession == [username |-> <<>>, interpals_sessid |-> <<>>, csrf_cookieV2 |-> <<>>]

NoResult == [kind |-> "none", type |-> "", args |-> <<>>, session |-> NoSession]

\* raise type(*args)
Raised(type, args) ==
    [kind |-> "error", type |-> type, args |-> args, session |-> NoSession]

\* Session.__init__
NewSession(u, sessid, csrf) ==
    [kind |-> "session", type |-> "", args |-> <<>>,
     session |-> [username |-> u, interpals_sessid |-> sessid,
                  csrf_cookieV2 |-> csrf]]

-----------------------------------------------------------------------------
(* the scripted server *)

SC_both == <<"interpals_sessid", "=", "a", ";", " ", "path=/", ";", " ",
              "HttpOnly,", " ", "csrf_cookieV2", "=", "b", ";", " ", "path=/">>
SC_sess == <<"interpals_sessid", "=", "c", ";", " ", "path=/">>
SC_csrf == <<" ", "csrf_cookieV2", " ", "=", " ", "d", " ", ";">>
SC_nosep == <<"csrf_cookieV2", "=", "d", "e">>
SC_noeq == <<"garbage", ";", " ", "path=/">>
SC_2eq == <<"csrf_cookieV2", "=", "d", "=", ";">>

NoResp == [status |-> 0, headers |-> <<>>, text |-> <<>>]

RootHeaders ==
    { <<>>,
      << <<"Set-Cookie", SC_both>> >>,
      << <<"set-cookie", SC_csrf>> >>,
      << <<"Content-Type", <<"text/html">>>>, <<"SET-COOKIE", SC_noeq>> >> }

RootBodies ==
    { <<"<html>", MetaOpen, "t", "k", "\"", ">", "</html>">>,
      <<"<html>", MetaOpen, "\"", ">", "</html>">>,
      <<"<html>", "</html>">>,
      <<"<html>", MetaOpen, "t", "\n", "k", "\"", ">">> }

RootResponses ==
    { [status |-> 200, headers |-> h, text |-> b] : h \in RootHeaders, b \in RootBodies }

PostCookies == { <<>>, SC_both, SC_sess, SC_nosep, SC_noeq, SC_2eq }

PostLocations == { <<>>, <<"/">>, <<"https://www.interpals.net", "/", "account.php">> }

PostStatuses == { 200, 302, 301, 500 }

\* a response with an empty Location choice has no Location header at all
PostHeaders(sc, loc) ==
    (IF sc = <<>> THEN <<>> ELSE << <<"Set-Cookie", sc>> >>)
    \o (IF loc = <<>> THEN <<>> ELSE << <<"Location", loc>> >>)

PostResponses ==
    { [status |-> st, headers |-> PostHeaders(sc, loc), text |-> <<"<html>">>] :
        st \in PostStatuses, sc \in PostCookies, loc \in PostLocations }

TooManyMarker == "Too many unsuccessful login attempts."

LocResponses ==
    { [status |-> 200, headers |-> << <<"Set-Cookie", SC_sess>> >>, text |-> b] :
        b \in { <<"<html>", "/app/auth/logout">>,
                <<"<html>", TooManyMarker, "</html>">> } }

Usernames == { <<"alice">>, <<"bob">> }

Passwords == { <<"secret">> }

-----------------------------------------------------------------------------
(* session.py: the login handshake *)

\* allow_redirects of requests.get / aiohttp ClientSession.get when the call
\* does not pass it
DefaultAllowRedirects == TRUE

RootUrl == <<"https://www.interpals.net", "/">>

LoginUrl == <<"https://www.interpals.net", "/", "app/auth/login">>

\* urljoin("https://www.interpals.net", location)
urljoin(base, loc) ==
    IF loc # <<>> /\ loc[1] = base[1] THEN loc ELSE base \o loc

\* resp.headers[name]: the lookup is case-insensitive
HasHeader(headers, name) ==
    \E i \in 1..Len(headers) : Lower(headers[i][1]) = Lower(name)

GetHeader(headers, name) ==
    headers[CHOOSE i \in 1..Len(headers) :
               /\ Lower(headers[i][1]) = Lower(name)
               /\ \A j \in 1..(i-1) : Lower(headers[j][1]) # Lower(name)][2]

Request(lib, method, url, headers, data, allow_redirects) ==
    [lib |-> lib, method |-> method, url |-> url, headers |-> headers,
     data |-> data, allow_redirects |-> allow_redirects]

ContentTypeForm == <<"Content-Type", <<"application/x-www-form-urlencoded">>>>

\* no login handshake under way
LoginIdle ==
    /\ pc = "Anonymous"
    /\ cookie = <<>>
    /\ csrf_token = <<>>
    /\ location = <<>>
    /\ requests = <<>>
    /\ rootResp = NoResp
    /\ postResp = NoResp
    /\ locResp = NoResp
    /\ result = NoResult

\* no adapter call made
ApiIdle ==
    /\ apiCalls = 0
    /\ apiArgs = [method |-> "", url |-> <<>>,
                  params |-> [some |-> FALSE, items |-> <<>>], check_auth |-> FALSE]
    /\ apiResp = NoResp
    /\ apiResult = [kind |-> "none", type |-> "", args |-> <<>>, resp |-> NoResp,
                    body |-> <<>>]

\* no Session dumped or loaded
StoreIdle ==
    /\ sessObj = NoSession
    /\ file = <<>>
    /\ fileKeys = <<>>
    /\ storePc = "idle"
    /\ loaded = NoResult

\* no stand-alone Cookie store in use
JarIdle ==
    /\ jar = <<>>
    /\ jarPrev = <<>>
    /\ jarHeaders = <<>>
    /\ jarPc = "idle"
    /\ jarErr = ""

\* Api.search not called
SearchIdle ==
    /\ sPc = "idle"
    /\ sArgs = [options |-> [online |-> FALSE, cityName |-> <<>>, city |-> <<>>],
                limit |-> 0, timeout |-> 0]
    /\ sOffset = 0
    /\ sUsers = <<>>
    /\ sIdx = 0
    /\ sParams = <<>>
    /\ sBackend = [pages |-> <<>>, served |-> 0]
    /\ sLog = <<>>

\* no parser call, method run, chat call or concurrent run under way
LateIdle ==
    /\ parserRun = [pc |-> "idle"]
    /\ methodRun = [pc |-> "idle"]
    /\ chatRun = [pc |-> "idle"]
    /\ concRun = [pc |-> "idle"]

Init ==
    /\ mode \in {"sync", "async"}
    /\ username \in Usernames
    /\ password \in Passwords
    /\ LoginIdle
    /\ ApiIdle
    /\ StoreIdle
    /\ JarIdle
    /\ SearchIdle
    /\ LateIdle

\* InitialPageOutcome without the "csrf_token is None" check
InitialPageOutcome_noCheck(resp) ==
    LET set_cookie == from_response_headers(resp.headers)
        tok        == find_csrf_token(resp.text)
    IN  IF ~set_cookie.ok
        THEN /\ pc' = "Rejected"
             /\ result' = Raised("ValueError", <<>>)
             /\ UNCHANGED <<cookie, csrf_token>>
        ELSE /\ cookie' = Update(cookie, set_cookie.cookie)
             /\ pc' = "TokenAcquired"
             /\ csrf_token' = tok.token
             /\ UNCHANGED result

\* _request_initial_page after the response arrived (lines 101-112)
InitialPageOutcome(resp) ==
    LET set_cookie == from_response_headers(resp.headers)
        tok        == find_csrf_token(resp.text)
    IN  IF ~set_cookie.ok
        THEN /\ pc' = "Rejected"
             /\ result' = Raised("ValueError", <<>>)
             /\ UNCHANGED <<cookie, csrf_token>>
        ELSE /\ cookie' = Update(cookie, set_cookie.cookie)
             /\ IF ~tok.found
                THEN /\ pc' = "Rejected"
                     /\ result' = Raised("NoCSRFTokenError", <<>>)
                     /\ UNCHANGED csrf_token
                ELSE /\ pc' = "TokenAcquired"
                     /\ csrf_token' = tok.token
                     /\ UNCHANGED result

\* Session._request_initial_page
Session_request_initial_page ==
    /\ mode = "sync"
    /\ pc = "Anonymous"
    /\ \E resp \in RootResponses :
          /\ requests' = Append(requests,
                Request("requests", "GET", RootUrl, <<>>, <<>>, DefaultAllowRedirects))
          /\ rootResp' = resp
          /\ InitialPageOutcome(resp)
    /\ UNCHANGED <<mode, username, password, location, postResp, locResp>>
    /\ UNCHANGED <<apiVars, otherVars>>

\* SessionAsync._request_initial_page
SessionAsync_request_initial_page ==
    /\ mode = "async"
    /\ pc = "Anonymous"
    /\ \E resp \in RootResponses :
          /\ requests' = Append(requests,
                Request("aiohttp", "GET", RootUrl, <<>>, <<>>, DefaultAllowRedirects))
          /\ rootResp' = resp
          /\ InitialPageOutcome(resp)
    /\ UNCHANGED <<mode, username, password, location, postResp, locResp>>
    /\ UNCHANGED <<apiVars, otherVars>>

\* str(resp.status_code) inside the f-string of line 142
StatusStr(st) ==
    CASE st = 200 -> "200" [] st = 301 -> "301" [] st = 302 -> "302"
      [] st = 500 -> "500" [] OTHER -> "?"

\* StatusBranch without its first branch: 200 falls through to the else
StatusBranch_no200(resp) ==
    IF resp.status = 302
    THEN IF HasHeader(resp.headers, "Location")
         THEN NoResult
         ELSE Raised("KeyError", << <<"Location">> >>)
    ELSE Raised("SessionError",
                << <<"Unknown response status while login: ", StatusStr(resp.status)>> >>)

\* StatusBranch taking every status but 200 for the redirect
StatusBranch_anyRedirect(resp) ==
    IF resp.status = 200
    THEN Raised("WrongUsernameOrPasswordError", <<>>)
    ELSE IF HasHeader(resp.headers, "Location")
         THEN NoResult
         ELSE Raised("KeyError", << <<"Location">> >>)

\* StatusBranch following the Location of a 200 response as well
StatusBranch_follow200(resp) ==
    IF resp.status \in {200, 302} /\ HasHeader(resp.headers, "Location")
    THEN NoResult
    ELSE IF resp.status = 200
    THEN Raised("WrongUsernameOrPasswordError", <<>>)
    ELSE IF resp.status = 302
    THEN Raised("KeyError", << <<"Location">> >>)
    ELSE Raised("SessionError",
                << <<"Unknown response status while login: ", StatusStr(resp.status)>> >>)

\* the status check of _request_login_endpoint (lines 135-143, 223-231):
\* what the POST response leads to
StatusBranch(resp) ==
    IF resp.status = 200
    THEN Raised("WrongUsernameOrPasswordError", <<>>)
    ELSE IF resp.status = 302
    THEN IF HasHeader(resp.headers, "Location")
         THEN NoResult
         ELSE Raised("KeyError", << <<"Location">> >>)
    ELSE Raised("SessionError",
                << <<"Unknown response status while login: ", StatusStr(resp.status)>> >>)

\* LoginPostOutcome that forgets cookie.update(set_cookie)
LoginPostOutcome_noUpdate(resp) ==
    LET set_cookie == from_response_headers(resp.headers)
        branch     == StatusBranch(resp)
    IN  IF ~set_cookie.ok
        THEN /\ pc' = "Rejected"
             /\ result' = Raised("ValueError", <<>>)
             /\ UNCHANGED <<cookie, location>>
        ELSE /\ cookie' = cookie
             /\ IF branch.kind = "error"
                THEN /\ pc' = "Rejected"
                     /\ result' = branch
                     /\ UNCHANGED location
                ELSE /\ pc' = "Submitted"
                     /\ location' = GetHeader(resp.headers, "Location")
                     /\ UNCHANGED result

\* _request_login_endpoint from the POST response on (lines 131-143)
LoginPostOutcome(resp) ==
    LET set_cookie == from_response_headers(resp.headers)
        branch     == StatusBranch(resp)
    IN  IF ~set_cookie.ok
        THEN /\ pc' = "Rejected"
             /\ result' = Raised("ValueError", <<>>)
             /\ UNCHANGED <<cookie, location>>
        ELSE /\ cookie' = Update(cookie, set_cookie.cookie)
             /\ IF branch.kind = "error"
                THEN /\ pc' = "Rejected"
                     /\ result' = branch
                     /\ UNCHANGED location
                ELSE /\ pc' = "Submitted"
                     /\ location' = GetHeader(resp.headers, "Location")
                     /\ UNCHANGED result

\* headers and data of the login POST (lines 116-125)
LoginPostHeaders ==
    << ContentTypeForm,
       <<"Cookie", as_string(cookie)>>,
       <<"Referer", <<"https://www.interpals.net", "/">>>> >>

LoginPostData ==
    << <<"username", username>>, <<"password", password>>,
       <<"csrf_token", csrf_token>> >>

\* Session._request_login_endpoint, first half: the credentialed POST
Session_request_login_endpoint ==
    /\ mode = "sync"
    /\ pc = "TokenAcquired"
    /\ \E resp \in PostResponses :
          /\ requests' = Append(requests,
                Request("requests", "POST", LoginUrl, LoginPostHeaders,
                        LoginPostData, FALSE))
          /\ postResp' = resp
          /\ LoginPostOutcome(resp)
    /\ UNCHANGED <<mode, username, password, csrf_token, rootResp, locResp>>
    /\ UNCHANGED <<apiVars, otherVars>>

\* SessionAsync._request_login_endpoint, first half: the credentialed POST
SessionAsync_request_login_endpoint ==
    /\ mode = "async"
    /\ pc = "TokenAcquired"
    /\ \E resp \in PostResponses :
          /\ requests' = Append(requests,
                Request("aiohttp", "POST", LoginUrl, LoginPostHeaders,
                        LoginPostData, FALSE))
          /\ postResp' = resp
          /\ LoginPostOutcome(resp)
    /\ UNCHANGED <<mode, username, password, csrf_token, rootResp, locResp>>
    /\ UNCHANGED <<apiVars, otherVars>>

\* TooManyAttempts that trusts the status chain and never looks at the body
TooManyAttempts_never(text) == FALSE

\* the body check of the followed Location (lines 152-153, 242-243)
TooManyAttempts(text) == Contains(text, TooManyMarker)

\* cls(username=..., interpals_sessid=cookie[...], csrf_cookieV2=cookie[...])
\* of login (lines 94-96): a missing key is the KeyError of the dict lookup
CreateSession(u, c) ==
    IF ~HasKey(c, <<"interpals_sessid">>)
    THEN Raised("KeyError", << <<"interpals_sessid">> >>)
    ELSE IF ~HasKey(c, <<"csrf_cookieV2">>)
    THEN Raised("KeyError", << <<"csrf_cookieV2">> >>)
    ELSE NewSession(u, GetItem(c, <<"interpals_sessid">>),
                    GetItem(c, <<"csrf_cookieV2">>))

\* from the response to the followed Location to the return of login
FollowOutcome(resp) ==
    IF TooManyAttempts(resp.text)
    THEN /\ pc' = "Rejected"
         /\ result' = Raised("TooManyLoginAttemptsError", <<>>)
    ELSE /\ result' = CreateSession(username, cookie)
         /\ pc' = IF result'.kind = "session" THEN "Confirmed" ELSE "Rejected"

\* headers of the GET of the Location (lines 147-150)
FollowHeaders == << ContentTypeForm, <<"Cookie", as_string(cookie)>> >>

\* Session._request_login_endpoint, second half, and the end of Session.login
Session_follow_location ==
    /\ mode = "sync"
    /\ pc = "Submitted"
    /\ \E resp \in LocResponses :
          /\ requests' = Append(requests,
                Request("requests", "GET",
                        urljoin(<<"https://www.interpals.net">>, location),
                        FollowHeaders, <<>>, DefaultAllowRedirects))
          /\ locResp' = resp
          /\ FollowOutcome(resp)
    /\ UNCHANGED <<mode, username, password, cookie, csrf_token, location,
                   rootResp, postResp>>
    /\ UNCHANGED <<apiVars, otherVars>>

\* SessionAsync._request_login_endpoint, second half, and the end of
\* SessionAsync.login
SessionAsync_follow_location ==
    /\ mode = "async"
    /\ pc = "Submitted"
    /\ \E resp \in LocResponses :
          /\ requests' = Append(requests,
                Request("aiohttp", "GET",
                        urljoin(<<"https://www.interpals.net">>, location),
                        FollowHeaders, <<>>, DefaultAllowRedirects))
          /\ locResp' = resp
          /\ FollowOutcome(resp)
    /\ UNCHANGED <<mode, username, password, cookie, csrf_token, location,
                   rootResp, postResp>>
    /\ UNCHANGED <<apiVars, otherVars>>

-----------------------------------------------------------------------------
(* api.py: the HTTP transport adapter of Api and ApiAsync *)

host == <<"interpals.net">>

user_agent == <<"Mozilla/5.0 (X11; Linux x86_64) AppleWebKit/537.36 (KHTML, like Gecko) Chrome/70.0.3538.77 Safari/537.36">>

AuthMarker == "/app/auth/logout"

NoParams == [some |-> FALSE, items |-> <<>>]

ApiArgChoices ==
    { [url |-> <<"/", "pm.php">>,
       params |-> [some |-> TRUE,
                   items |-> << <<"action", <<"send">>>>, <<"uid", <<"7">>>> >>]],
      [url |-> <<"someuser">>, params |-> NoParams] }

ApiResponses ==
    { [status |-> st,
       headers |-> IF loc = <<>> THEN <<>> ELSE << <<"Location", loc>> >>,
       text |-> b] :
        st \in {200, 301, 302},
        loc \in { <<>>, <<"/", "pm.php", "?", "thread_id", "=", "9">> },
        b \in { <<"<html>", AuthMarker>>, <<"<html>">> } }

NoApiResult ==
    [kind |-> "none", type |-> "", args |-> <<>>, resp |-> NoResp, body |-> <<>>]

ApiRaised(type, args) ==
    [kind |-> "error", type |-> type, args |-> args, resp |-> NoResp, body |-> <<>>]

\* Session.cookie
Session_cookie(sess) ==
    << << <<"interpals_sessid">>, sess.interpals_sessid >>,
       << <<"csrf_cookieV2">>, sess.csrf_cookieV2 >> >>

\* Api._get_headers
get_headers(sess) ==
    << <<"Cookie", as_string(Update(<<>>, Session_cookie(sess)))>>,
       <<"User-Agent", user_agent>> >>

\* urlencode(params, True)
urlencode(items) ==
    Join(<<"&">>, [i \in 1..Len(items) |-> <<items[i][1], "=">> \o items[i][2]])

\* Api._get_full_url
get_full_url(url, params) ==
    LET u == IF url # <<>> /\ url[1] = "/" THEN url ELSE <<"/">> \o url
        full == <<"https://">> \o host \o u
    IN  IF params.some THEN full \o <<"?">> \o urlencode(params.items) ELSE full

\* check_body_for_auth that accepts any non-empty body
check_body_for_auth_nonEmpty(body) == body # <<>>

\* Api._check_body_for_auth
check_body_for_auth(body) == Contains(body, AuthMarker)

\* ApiAllowRedirects left at the default of the HTTP library
ApiAllowRedirects_default == TRUE

\* allow_redirects of the requests the adapter sends (lines 292, 302, 637)
ApiAllowRedirects == FALSE

\* what _get and _post do with the response (lines 293-295, 303-305)
SyncOutcome(resp, check_auth) ==
    IF check_auth /\ ~check_body_for_auth(resp.text)
    THEN ApiRaised("APIAuthError", <<>>)
    ELSE [kind |-> "response", type |-> "", args |-> <<>>, resp |-> resp,
          body |-> <<>>]

\* Api._get
Api_get ==
    /\ mode = "sync"
    /\ result.kind = "session"
    /\ apiCalls < MaxApiCalls
    /\ \E a \in ApiArgChoices, check_auth \in BOOLEAN, resp \in ApiResponses :
          LET url == IF a.params.some
                     THEN a.url \o <<"?">> \o urlencode(a.params.items)
                     ELSE a.url
          IN  /\ requests' = Append(requests,
                    Request("requests", "GET", get_full_url(url, NoParams),
                            get_headers(result.session), <<>>, ApiAllowRedirects))
              /\ apiArgs' = [method |-> "get", url |-> a.url, params |-> a.params,
                             check_auth |-> check_auth]
              /\ apiResp' = resp
              /\ apiResult' = SyncOutcome(resp, check_auth)
    /\ apiCalls' = apiCalls + 1
    /\ UNCHANGED <<loginVars, otherVars>>

\* Api._post
Api_post ==
    /\ mode = "sync"
    /\ result.kind = "session"
    /\ apiCalls < MaxApiCalls
    /\ \E a \in ApiArgChoices, check_auth \in BOOLEAN, resp \in ApiResponses :
          /\ requests' = Append(requests,
                Request("requests", "POST", get_full_url(a.url, NoParams),
                        Append(get_headers(result.session), ContentTypeForm),
                        a.params.items, ApiAllowRedirects))
          /\ apiArgs' = [method |-> "post", url |-> a.url, params |-> a.params,
                         check_auth |-> check_auth]
          /\ apiResp' = resp
          /\ apiResult' = SyncOutcome(resp, check_auth)
    /\ apiCalls' = apiCalls + 1
    /\ UNCHANGED <<loginVars, otherVars>>

\* AsyncOutcome without the redirect check: the body of a 301/302 is returned
AsyncOutcome_noRedirectCheck(resp, check_auth) ==
    IF check_auth /\ ~check_body_for_auth(resp.text)
    THEN ApiRaised("APIAuthError", <<>>)
    ELSE [kind |-> "body", type |-> "", args |-> <<>>, resp |-> NoResp,
          body |-> resp.text]

\* what ApiAsync._request does with the response (lines 646-655)
AsyncOutcome(resp, check_auth) ==
    IF resp.status \in {301, 302}
    THEN IF HasHeader(resp.headers, "Location")
         THEN ApiRaised("APIRedirectError",
                        <<resp.status, GetHeader(resp.headers, "Location")>>)
         ELSE ApiRaised("KeyError", << <<"Location">> >>)
    ELSE IF check_auth /\ ~check_body_for_auth(resp.text)
    THEN ApiRaised("APIAuthError", <<>>)
    ELSE [kind |-> "body", type |-> "", args |-> <<>>, resp |-> NoResp,
          body |-> resp.text]

\* ApiAsync._request
ApiAsync_request ==
    /\ mode = "async"
    /\ result.kind = "session"
    /\ apiCalls < MaxApiCalls
    /\ \E method \in {"get", "post"}, a \in ApiArgChoices,
          check_auth \in BOOLEAN, resp \in ApiResponses :
          LET full_url == get_full_url(a.url, IF method = "get" THEN a.params
                                              ELSE NoParams)
              headers  == IF method = "post"
                          THEN Append(get_headers(result.session), ContentTypeForm)
                          ELSE get_headers(result.session)
          IN  /\ requests' = Append(requests,
                    Request("aiohttp", IF method = "post" THEN "POST" ELSE "GET",
                            full_url, headers,
                            IF method = "post" THEN a.params.items ELSE <<>>,
                            ApiAllowRedirects))
              /\ apiArgs' = [method |-> method, url |-> a.url,
                             params |-> a.params, check_auth |-> check_auth]
              /\ apiResp' = resp
              /\ apiResult' = AsyncOutcome(resp, check_auth)
    /\ apiCalls' = apiCalls + 1
    /\ UNCHANGED <<loginVars, otherVars>>

Next ==
    \/ Session_request_initial_page
    \/ SessionAsync_request_initial_page
    \/ Session_request_login_endpoint
    \/ SessionAsync_request_login_endpoint
    \/ Session_follow_location
    \/ SessionAsync_follow_location
    \/ Api_get
    \/ Api_post
    \/ ApiAsync_request

Spec == Init /\ [][Next]_vars

-----------------------------------------------------------------------------
(* session.py: Session.dump and Session.load *)

\* json.dump writes a str between quotes with these escapes (ensure_ascii)
JsonEscape_noBackslash(a) ==
    CASE a = "\"" -> <<"\\", "\"">>
      [] a = "\n" -> <<"\\", "n">>
      [] a = "é"  -> <<"\\", "u", "0", "0", "e", "9">>
      [] OTHER    -> <<a>>

JsonEscape(a) ==
    CASE a = "\"" -> <<"\\", "\"">>
      [] a = "\\" -> <<"\\", "\\">>
      [] a = "\n" -> <<"\\", "n">>
      [] a = "é"  -> <<"\\", "u", "0", "0", "e", "9">>
      [] OTHER    -> <<a>>

RECURSIVE JsonEscapeAll(_)
JsonEscapeAll(str) ==
    IF str = <<>> THEN <<>> ELSE JsonEscape(Head(str)) \o JsonEscapeAll(Tail(str))

JsonString(str) == <<"\"">> \o JsonEscapeAll(str) \o <<"\"">>

\* json.dump of a dict of str to str, with the separators ", " and ": "
json_dump(d) ==
    <<"{">>
    \o Join(<<",", " ">>,
            [i \in 1..Len(d) |-> JsonString(d[i][1]) \o <<":", " ">> \o JsonString(d[i][2])])
    \o <<"}">>

JsonFail == [ok |-> FALSE, v |-> <<>>, next |-> 0]

\* the scanner of a JSON string: i is the position after the opening quote
RECURSIVE JsonReadString(_, _, _)
JsonReadString(text, i, acc) ==
    IF i > Len(text) THEN JsonFail
    ELSE IF text[i] = "\"" THEN [ok |-> TRUE, v |-> acc, next |-> i + 1]
    ELSE IF text[i] = "\n" THEN JsonFail
    ELSE IF text[i] = "\\"
    THEN IF i + 1 > Len(text) THEN JsonFail
         ELSE IF text[i+1] \in {"\"", "\\"}
         THEN JsonReadString(text, i + 2, Append(acc, text[i+1]))
         ELSE IF text[i+1] = "n"
         THEN JsonReadString(text, i + 2, Append(acc, "\n"))
         ELSE IF text[i+1] = "u" /\ i + 5 <= Len(text)
                 /\ SubSeq(text, i + 2, i + 5) = <<"0", "0", "e", "9">>
         THEN JsonReadString(text, i + 6, Append(acc, "é"))
         ELSE JsonFail
    ELSE JsonReadString(text, i + 1, Append(acc, text[i]))

\* skip JSON whitespace
RECURSIVE JsonSkip(_, _)
JsonSkip(text, i) ==
    IF i <= Len(text) /\ text[i] \in {" ", "\n"} THEN JsonSkip(text, i + 1) ELSE i

\* the members of a JSON object whose values are strings: i is the position
\* of the quote that opens the next key; a repeated key keeps its last value
RECURSIVE JsonReadMembers(_, _, _)
JsonReadMembers(text, i, obj) ==
    IF i > Len(text) \/ text[i] # "\"" THEN JsonFail
    ELSE LET k == JsonReadString(text, i + 1, <<>>)
             c == IF k.ok THEN JsonSkip(text, k.next) ELSE 0
             q == IF k.ok /\ c <= Len(text) /\ text[c] = ":"
                  THEN JsonSkip(text, c + 1) ELSE 0
             v == IF q > 0 /\ q <= Len(text) /\ text[q] = "\""
                  THEN JsonReadString(text, q + 1, <<>>) ELSE JsonFail
             e == IF v.ok THEN JsonSkip(text, v.next) ELSE 0
         IN  IF ~v.ok \/ e > Len(text) THEN JsonFail
             ELSE IF text[e] = "}"
             THEN [ok |-> TRUE, v |-> SetItem(obj, k.v, v.v), next |-> e + 1]
             ELSE IF text[e] = ","
             THEN JsonReadMembers(text, JsonSkip(text, e + 1), SetItem(obj, k.v, v.v))
             ELSE JsonFail

\* json.load on a text holding one object of strings or one string:
\* kind "error" is the JSONDecodeError
json_load(text) ==
    LET i == JsonSkip(text, 1)
    IN  IF i > Len(text) THEN [kind |-> "error", v |-> <<>>]
        ELSE IF text[i] = "{"
        THEN LET j == JsonSkip(text, i + 1)
                 r == IF j <= Len(text) /\ text[j] = "}"
                      THEN [ok |-> TRUE, v |-> <<>>, next |-> j + 1]
                      ELSE JsonReadMembers(text, j, <<>>)
             IN  IF r.ok /\ JsonSkip(text, r.next) > Len(text)
                 THEN [kind |-> "object", v |-> r.v]
                 ELSE [kind |-> "error", v |-> <<>>]
        ELSE IF text[i] = "\""
        THEN LET r == JsonReadString(text, i + 1, <<>>)
             IN  IF r.ok /\ JsonSkip(text, r.next) > Len(text)
                 THEN [kind |-> "string", v |-> r.v]
                 ELSE [kind |-> "error", v |-> <<>>]
        ELSE [kind |-> "error", v |-> <<>>]

\* the parameters of Session.__init__
SessionParams == { <<"username">>, <<"interpals_sessid">>, <<"csrf_cookieV2">> }

\* cls(**kwargs) that takes a missing argument for the empty string
SessionFromKwargs_defaults(kwargs) ==
    IF \E i \in 1..Len(kwargs) : kwargs[i][1] \notin SessionParams
    THEN Raised("TypeError", <<>>)
    ELSE NewSession(IF HasKey(kwargs, <<"username">>)
                    THEN GetItem(kwargs, <<"username">>) ELSE <<>>,
                    IF HasKey(kwargs, <<"interpals_sessid">>)
                    THEN GetItem(kwargs, <<"interpals_sessid">>) ELSE <<>>,
                    IF HasKey(kwargs, <<"csrf_cookieV2">>)
                    THEN GetItem(kwargs, <<"csrf_cookieV2">>) ELSE <<>>)

\* cls(**kwargs) of Session.load: the call binds the keys to the three
\* parameters of __init__; an unexpected or a missing one is a TypeError
SessionFromKwargs(kwargs) ==
    IF \E i \in 1..Len(kwargs) : kwargs[i][1] \notin SessionParams
    THEN Raised("TypeError", <<>>)
    ELSE IF \E k \in SessionParams : ~HasKey(kwargs, k)
    THEN Raised("TypeError", <<>>)
    ELSE NewSession(GetItem(kwargs, <<"username">>),
                    GetItem(kwargs, <<"interpals_sessid">>),
                    GetItem(kwargs, <<"csrf_cookieV2">>))

\* Session.load
Session_load_outcome(text) ==
    LET kwargs == json_load(text)
    IN  IF kwargs.kind = "error" THEN Raised("JSONDecodeError", <<>>)
        ELSE IF kwargs.kind = "string" THEN Raised("TypeError", <<>>)
        ELSE SessionFromKwargs(kwargs.v)

\* the kwargs dict of Session.dump (lines 64-68)
DumpKwargs(obj) ==
    << << <<"username">>, obj.username >>,
       << <<"interpals_sessid">>, obj.interpals_sessid >>,
       << <<"csrf_cookieV2">>, obj.csrf_cookieV2 >> >>

StoreStrings ==
    { <<>>, <<"a", "b">>, <<"a", "\"", ":", " ", "\"", "}">>, <<"\\", "n", "\\">>,
      <<"é", "\n", ",">> }

SessionObjects ==
    { [username |-> u, interpals_sessid |-> a, csrf_cookieV2 |-> b] :
        u \in { <<"alice">>, <<"\\", "\"">> }, a \in StoreStrings, b \in StoreStrings }

\* key lists of the documents written by hand
HandKeyLists ==
    { <<>>,
      << <<"username">> >>, << <<"interpals_sessid">> >>, << <<"csrf_cookieV2">> >>,
      << <<"username">>, <<"interpals_sessid">> >>,
      << <<"username">>, <<"csrf_cookieV2">> >>,
      << <<"csrf_cookieV2">>, <<"interpals_sessid">> >>,
      << <<"csrf_cookieV2">>, <<"interpals_sessid">>, <<"username">> >>,
      << <<"username">>, <<"interpals_sessid">>, <<"username">> >>,
      << <<"username">>, <<"interpals_sessid">>, <<"csrf_cookieV2">>, <<"extra">> >> }

\* a document written by hand, in the compact form, every value "v"
HandDocument(keys) ==
    <<" ", "{">>
    \o Join(<<",">>, [i \in 1..Len(keys) |-> <<"\"">> \o keys[i] \o <<"\"", ":", "\"", "v", "\"">>])
    \o <<"}", "\n">>

InitStore ==
    /\ mode = "sync"
    /\ username = <<>>
    /\ password = <<>>
    /\ LoginIdle
    /\ ApiIdle
    /\ JarIdle
    /\ SearchIdle
    /\ LateIdle
    /\ sessObj \in SessionObjects
    /\ file = <<>>
    /\ fileKeys = <<>>
    /\ storePc = "constructed"
    /\ loaded = NoResult

\* Session.dump
Session_dump ==
    /\ storePc = "constructed"
    /\ file' = json_dump(DumpKwargs(sessObj))
    /\ storePc' = "dumped"
    /\ UNCHANGED <<sessObj, fileKeys, loaded>>
    /\ UNCHANGED <<lateVars, loginVars, requests, apiVars, jarVars, searchVars>>

\* a document that Session.dump did not write is put in the file
WriteDocument ==
    /\ storePc = "constructed"
    /\ \E keys \in HandKeyLists :
          /\ file' = HandDocument(keys)
          /\ fileKeys' = keys
    /\ storePc' = "written"
    /\ UNCHANGED <<sessObj, loaded>>
    /\ UNCHANGED <<lateVars, loginVars, requests, apiVars, jarVars, searchVars>>

\* a text that is no JSON object is put in the file
WriteGarbage ==
    /\ storePc = "constructed"
    /\ file' \in { <<>>, <<"{", "\"", "username", "\"">>, <<"\"", "username", "\"">>,
                   <<"{", "}", "}">> }
    /\ storePc' = "garbage"
    /\ UNCHANGED <<sessObj, fileKeys, loaded>>
    /\ UNCHANGED <<lateVars, loginVars, requests, apiVars, jarVars, searchVars>>

\* Session.load
Session_load ==
    /\ storePc \in {"dumped", "written", "garbage"}
    /\ loaded' = Session_load_outcome(file)
    /\ storePc' = CASE storePc = "dumped"  -> "reloaded"
                    [] storePc = "written" -> "loaded"
                    [] OTHER               -> "refused"
    /\ UNCHANGED <<sessObj, file, fileKeys>>
    /\ UNCHANGED <<lateVars, loginVars, requests, apiVars, jarVars, searchVars>>

NextStore ==
    \/ Session_dump
    \/ WriteDocument
    \/ WriteGarbage
    \/ Session_load

SpecStore == InitStore /\ [][NextStore]_vars

-----------------------------------------------------------------------------
(* cookie.py: Set-Cookie headers merged into one cookie store *)

MaxMerges == 2

\* the pieces a Set-Cookie header is made of
JarPieces ==
    { <<"interpals_sessid", "=", "a", ";", " ", "path=/", ";", " ">>,
      <<" ", "interpals_sessid", "=", "c", ";", " ", "path=/">>,
      <<" ", "csrf_cookieV2", " ", "=", " ", "d", " ", ";">>,
      <<"csrf_cookieV2", "=", "d", "e">>,
      <<"csrf_cookieV2", "=", "d", "=", ";">>,
      <<"garbage", ";", " ", "path=/">>,
      <<>> }

\* the headers: one piece, or two pieces around "HttpOnly,"
JarPieceLists ==
    { <<p>> : p \in JarPieces }
    \cup { pq \in JarPieces \X JarPieces : pq[1] # pq[2] }

InitJar ==
    /\ mode = "sync"
    /\ username = <<>>
    /\ password = <<>>
    /\ LoginIdle
    /\ ApiIdle
    /\ StoreIdle
    /\ JarIdle
    /\ SearchIdle
    /\ LateIdle

\* set_cookie = Cookie.from_response_headers(resp.headers); cookie.update(set_cookie)
Cookie_merge ==
    /\ jarPc \in {"idle", "merged"}
    /\ Len(jarHeaders) < MaxMerges
    /\ \E pieces \in JarPieceLists :
          LET headers == << <<"Set-Cookie", Join(<<"HttpOnly,">>, pieces)>> >>
              set_cookie == from_response_headers(headers)
          IN  /\ jarHeaders' = Append(jarHeaders, pieces)
              /\ jarPrev' = jar
              /\ IF set_cookie.ok
                 THEN /\ jar' = Update(jar, set_cookie.cookie)
                      /\ jarPc' = "merged"
                      /\ jarErr' = ""
                 ELSE /\ jar' = jar
                      /\ jarPc' = "raised"
                      /\ jarErr' = "ValueError"
    /\ UNCHANGED <<lateVars, loginVars, requests, apiVars, storeVars, searchVars>>

\* a new store is taken for the next run
Cookie_new ==
    /\ jarPc \in {"merged", "raised"}
    /\ jar' = <<>>
    /\ jarPrev' = <<>>
    /\ jarHeaders' = <<>>
    /\ jarPc' = "idle"
    /\ jarErr' = ""
    /\ UNCHANGED <<lateVars, loginVars, requests, apiVars, storeVars, searchVars>>

NextJar ==
    \/ Cookie_merge
    \/ Cookie_new

SpecJar == InitJar /\ [][NextJar]_vars

-----------------------------------------------------------------------------
(* api.py: Api.search and ApiAsync.search *)

\* limit of search when the caller passes none
DefaultLimit == 1000

\* calls of next() made on a generator that has ended
MaxStops == 1

\* the numbers of rows of the pages a server gives before its empty pages
PageScripts == { <<>>, <<1>>, <<3>>, <<2, 3>>, <<1, 1, 1>>, <<10, 10>> }

SearchOptions ==
    { [online |-> FALSE, cityName |-> <<>>, city |-> <<>>],
      [online |-> TRUE, cityName |-> <<"Paris">>, city |-> <<"2988507">>],
      [online |-> FALSE, cityName |-> <<"Paris">>, city |-> <<>>] }

RowOpen == "<div class=\"sResMain\"><a href=\"/profile\">"

RECURSIVE ResultRows(_, _)
ResultRows(first, n) ==
    IF n = 0 THEN <<>>
    ELSE <<RowOpen, "u" \o ToString(first), "</a></div>">> \o ResultRows(first + 1, n - 1)

\* the answers to a results-page request: n rows from row number first on
PageResponses(first, n) ==
    { [status |-> st,
       headers |-> IF st = 302 THEN << <<"Location", <<"/">>>> >> ELSE <<>>,
       text |-> <<"<html>">> \o marker
                \o <<"<div class=\"sResHead\">", "Results", "</div>">>
                \o ResultRows(first, n) \o <<"</html>">>] :
        st \in {200, 302}, marker \in { <<AuthMarker>>, <<>> } }
    \ { [status |-> 302, headers |-> << <<"Location", <<"/">>>> >>,
         text |-> <<"<html>", "<div class=\"sResHead\">", "Results", "</div>">>
                  \o ResultRows(first, n) \o <<"</html>">>] }

\* the answers to the request of the search form
FormResponses ==
    { [status |-> 200, headers |-> <<>>,
       text |-> <<"<html>", AuthMarker, MetaOpen, "t", "k", "\"", ">">>],
      [status |-> 200, headers |-> <<>>, text |-> <<"<html>", AuthMarker>>],
      [status |-> 200, headers |-> <<>>,
       text |-> <<"<html>", MetaOpen, "t", "k", "\"", ">">>],
      [status |-> 302, headers |-> << <<"Location", <<"/">>>> >>,
       text |-> <<"<html>", AuthMarker, MetaOpen, "t", "k", "\"", ">">>] }

GeoItemOpen == "{\"id\": \""

\* the answers to /app/async/geoAc
GeoResponses ==
    { [status |-> 200, headers |-> <<>>,
       text |-> <<"{\"items\": [", GeoItemOpen, "2988507", "\"}", "]}">>],
      [status |-> 200, headers |-> <<>>, text |-> <<"{\"items\": [", "]}">>] }

\* Api._parse_search_result: the text of the first a of every div.sResMain
parse_search_result_head(body) ==
    IF \E i \in 1..(Len(body) - 1) : body[i] = RowOpen
    THEN <<body[(CHOOSE i \in 1..(Len(body) - 1) :
                    body[i] = RowOpen /\ \A h \in 1..(i-1) : body[h] # RowOpen) + 1]>>
    ELSE <<>>

parse_search_result(body) ==
    LET at == SelectSeq([i \in 1..Len(body) |-> i],
                        LAMBDA i : body[i] = RowOpen /\ i < Len(body))
    IN  [k \in 1..Len(at) |-> body[at[k] + 1]]

\* Api._prepare_search_params for options that may give online, cityName,
\* city; a value is the list of strings urlencode writes for the key
prepare_search_params(options, citycode) ==
    << <<"offset", << <<>> >> >>,
       <<"sort", << <<"last_login">> >> >>,
       <<"age1", << <<"16">> >> >>,
       <<"age2", << <<"110">> >> >>,
       <<"sex[]", << <<"male">>, <<"female">> >> >>,
       <<"continents[]", << <<"AF">>, <<"AS">>, <<"EU">>, <<"NA">>, <<"OC">>, <<"SA">> >> >>,
       <<"countries[]", << <<"---">> >> >>,
       <<"languages[]", << <<"---">> >> >>,
       <<"lfor[]", << <<"lfor_email">>, <<"lfor_snail">>, <<"lfor_langex">>,
                      <<"lfor_friend">>, <<"lfor_flirt">>, <<"lfor_relation">> >> >>,
       <<"keywords", << <<>> >> >>,
       <<"username", << <<>> >> >>,
       <<"csrf_token", << <<"ZjU1ZWZkM2Q=">> >> >> >>
    \o (IF options.online THEN << <<"online", << <<"1">> >> >> >> ELSE <<>>)
    \o (IF options.cityName # <<>>
        THEN << <<"city", <<citycode>> >>, <<"cityName", <<options.cityName>> >> >>
        ELSE <<>>)

\* urlencode(params, True): a list value gives one key=value for each element
RECURSIVE urlencode_doseq(_)
urlencode_doseq(items) ==
    IF items = <<>> THEN <<>>
    ELSE Join(<<"&">>, [j \in 1..Len(items[1][2]) |-> <<items[1][1], "=">> \o items[1][2][j]])
         \o (IF Len(items) > 1 THEN <<"&">> ELSE <<>>)
         \o urlencode_doseq(Tail(items))

\* offset += 1 left out
OffsetAfterYield_same(off) == off

\* offset += 1
OffsetAfterYield(off) == off + 1

\* the test of the limit made one yield late
LimitReached_late(off, limit) == off > limit

\* if offset >= limit
LimitReached(off, limit) == off >= limit

\* an entry of sLog
Ev(ev, n, k, user) == [ev |-> ev, n |-> n, k |-> k, user |-> user]

\* no sleep between two pages
SleepEvents_none(timeout) == <<>>

\* sleep(timeout) / await asyncio.sleep(timeout)
SleepEvents(timeout) == <<Ev("sleep", timeout, 0, "")>>

\* self._get(url, params, check_auth=True) of Api.search, and
\* self._request(url, params=params) of ApiAsync.search, check_auth its default
SearchOutcome(lib, resp) ==
    IF lib = "requests" THEN SyncOutcome(resp, TRUE) ELSE AsyncOutcome(resp, TRUE)

\* the text _get or _request hands back
SearchBody(out) == IF out.kind = "response" THEN out.resp.text ELSE out.body

\* the GET that _get or _request sends for url
SearchGet(lib, url) ==
    Request(lib, "GET", get_full_url(url, NoParams), get_headers(result.session),
            <<>>, ApiAllowRedirects)

\* an exception leaves the generator
SearchRaise(reqs, log, type) ==
    /\ requests' = reqs
    /\ sPc' = "raised"
    /\ sLog' = Append(log, Ev("raise", 0, 0, type))
    /\ UNCHANGED <<sOffset, sUsers, sIdx, sParams, sBackend>>

\* the while loop of search from its top to the first yield, the return or
\* the exception
SearchFetch(lib, off, params, reqs, log) ==
    LET n == IF sBackend.pages = <<>> THEN 0 ELSE Head(sBackend.pages)
        p == SetItem(params, "offset", << <<ToString(off)>> >>)
    IN  \E resp \in PageResponses(sBackend.served + 1, n) :
          LET out == SearchOutcome(lib, resp)
              users == IF out.kind = "error" THEN <<>>
                       ELSE parse_search_result(SearchBody(out))
              fetched == Append(log, Ev("fetch", off, Len(users), ""))
          IN  /\ requests' = Append(reqs, SearchGet(lib, <<"/", "app/search", "?">> \o urlencode_doseq(p)))
              /\ sBackend' = [pages |-> IF sBackend.pages = <<>> THEN <<>>
                                        ELSE Tail(sBackend.pages),
                              served |-> sBackend.served + n]
              /\ sParams' = p
              /\ sOffset' = off
              /\ sUsers' = users
              /\ IF out.kind = "error"
                 THEN /\ sPc' = "raised"
                      /\ sIdx' = 0
                      /\ sLog' = Append(fetched, Ev("raise", 0, 0, out.type))
                 ELSE IF users = <<>>
                 THEN /\ sPc' = "done"
                      /\ sIdx' = 0
                      /\ sLog' = Append(fetched, Ev("return", 0, 0, ""))
                 ELSE /\ sPc' = "suspended"
                      /\ sIdx' = 1
                      /\ sLog' = Append(fetched, Ev("yield", 0, 0, users[1]))

\* params['csrf_token'] = csrf_token
WithToken(params, token) ==
    SetItem(params, "csrf_token", << IF token.found THEN token.token ELSE <<"None">> >>)

\* search from its first line to the first yield, the return or the exception
SearchFirst(lib) ==
    /\ sPc = "created"
    /\ \E form \in FormResponses :
          LET out == SearchOutcome(lib, form)
              reqs1 == Append(requests, SearchGet(lib, <<"/", "app/search">>))
              log1 == sLog \o <<Ev("next", 0, 0, ""), Ev("form", 0, 0, "")>>
              token == find_csrf_token(SearchBody(out))
              options == sArgs.options
          IN  IF out.kind = "error" THEN SearchRaise(reqs1, log1, out.type)
              ELSE IF options.cityName # <<>> /\ options.city = <<>>
              THEN \E geo \in GeoResponses :
                      LET reqs2 == Append(reqs1,
                              Request("requests", "GET",
                                  get_full_url(<<"/", "app/async/geoAc", "?">>
                                      \o urlencode_doseq(<< <<"query", <<options.cityName>> >> >>),
                                      NoParams),
                                  get_headers(result.session), <<>>, ApiAllowRedirects))
                          log2 == Append(log1, Ev("geo", 0, 0, ""))
                      IN  IF ~Contains(geo.text, GeoItemOpen)
                          THEN SearchRaise(reqs2, log2, "IndexError")
                          ELSE SearchFetch(lib, 0,
                                  WithToken(prepare_search_params(options,
                                      <<geo.text[Find(geo.text, GeoItemOpen) + 2]>>), token),
                                  reqs2, log2)
              ELSE SearchFetch(lib, 0,
                      WithToken(prepare_search_params(options, options.city), token),
                      reqs1, log1)

\* search from a yield to the next yield, the return or the exception
SearchResume(lib) ==
    /\ sPc = "suspended"
    /\ LET off == OffsetAfterYield(sOffset)
           log1 == Append(sLog, Ev("next", 0, 0, ""))
       IN  IF LimitReached(off, sArgs.limit)
           THEN /\ sPc' = "done"
                /\ sOffset' = off
                /\ sLog' = Append(log1, Ev("return", 0, 0, ""))
                /\ UNCHANGED <<requests, sUsers, sIdx, sParams, sBackend>>
           ELSE IF sIdx < Len(sUsers)
           THEN /\ sOffset' = off
                /\ sIdx' = sIdx + 1
                /\ sLog' = Append(log1, Ev("yield", 0, 0, sUsers[sIdx + 1]))
                /\ UNCHANGED <<requests, sPc, sUsers, sParams, sBackend>>
           ELSE SearchFetch(lib, off, sParams, requests,
                            log1 \o SleepEvents(sArgs.timeout))

\* api = Api(session); api.search(options, limit, timeout)
InitSearch ==
    /\ mode \in {"sync", "async"}
    /\ username = <<"alice">>
    /\ password = <<>>
    /\ pc = "Anonymous"
    /\ cookie = <<>>
    /\ csrf_token = <<>>
    /\ location = <<>>
    /\ requests = <<>>
    /\ rootResp = NoResp
    /\ postResp = NoResp
    /\ locResp = NoResp
    /\ result = NewSession(<<"alice">>, <<"a">>, <<"b">>)
    /\ ApiIdle
    /\ StoreIdle
    /\ JarIdle
    /\ LateIdle
    /\ sPc = "created"
    /\ sArgs \in [options : SearchOptions,
                  limit : {-1, 0, 1, 2, 3, 5, 10, DefaultLimit},
                  timeout : {0, 3}]
    /\ sOffset = 0
    /\ sUsers = <<>>
    /\ sIdx = 0
    /\ sParams = <<>>
    /\ sBackend \in [pages : PageScripts, served : {0}]
    /\ sLog = <<>>

Api_search_first ==
    /\ mode = "sync"
    /\ SearchFirst("requests")
    /\ UNCHANGED <<lateVars, loginVars, apiVars, storeVars, jarVars, sArgs>>

Api_search_resume ==
    /\ mode = "sync"
    /\ SearchResume("requests")
    /\ UNCHANGED <<lateVars, loginVars, apiVars, storeVars, jarVars, sArgs>>

ApiAsync_search_first ==
    /\ mode = "async"
    /\ SearchFirst("aiohttp")
    /\ UNCHANGED <<lateVars, loginVars, apiVars, storeVars, jarVars, sArgs>>

ApiAsync_search_resume ==
    /\ mode = "async"
    /\ SearchResume("aiohttp")
    /\ UNCHANGED <<lateVars, loginVars, apiVars, storeVars, jarVars, sArgs>>

\* the consumer abandons the iteration: close() on the generator
Search_close ==
    /\ sPc \in {"created", "suspended"}
    /\ sPc' = "closed"
    /\ sLog' = Append(sLog, Ev("close", 0, 0, ""))
    /\ UNCHANGED <<lateVars, loginVars, requests, apiVars, storeVars, jarVars>>
    /\ UNCHANGED <<sArgs, sOffset, sUsers, sIdx, sParams, sBackend>>

\* next() on a generator that has ended: StopIteration, no line of search runs
Search_exhausted ==
    /\ sPc \in {"done", "raised", "closed"}
    /\ Len(SelectSeq(sLog, LAMBDA e : e.ev = "stop")) < MaxStops
    /\ sLog' = sLog \o <<Ev("next", 0, 0, ""), Ev("stop", 0, 0, "")>>
    /\ UNCHANGED <<lateVars, loginVars, requests, apiVars, storeVars, jarVars>>
    /\ UNCHANGED <<sPc, sArgs, sOffset, sUsers, sIdx, sParams, sBackend>>

NextSearch ==
    \/ Api_search_first
    \/ Api_search_resume
    \/ ApiAsync_search_first
    \/ ApiAsync_search_resume
    \/ Search_close
    \/ Search_exhausted

SpecSearch == InitSearch /\ [][NextSearch]_vars

-----------------------------------------------------------------------------
(* parsers/chat_parser.py and parsers/profile_parser.py *)

\* the longest list of div elements given to parse_messages
MaxElements == 4

\* a div of the chat page, as find_all meets it in document order; thumb is
\* the href of the a in its div.msg_user_thumb, <<>> without such a div,
\* <<"">> when that div holds no a
PmElement(class, text, thumb, id) ==
    [class |-> class, text |-> text, thumb |-> thumb, id |-> id]

\* ChatParser._parse_message
parse_message(element) ==
    [time |-> "10:15", text |-> Strip(element.text),
     msg_id |-> SubSeq(element.id, 5, Len(element.id)),
     unread |-> \E c \in 1..Len(element.class) : element.class[c] = "pm_unread"]

\* parse_messages that takes the sender from the message's own marker only
parse_messages_ownMarker(elements) ==
    LET found == SelectSeq(elements, LAMBDA e : \E c \in 1..Len(e.class) :
                                        e.class[c] \in {"pm_date", "pm_msg"})
        msgs == SelectSeq(found, LAMBDA e : \A c \in 1..Len(e.class) :
                                        e.class[c] # "pm_date")
    IN  [kind |-> "list", type |-> "",
         items |-> [i \in 1..Len(msgs) |->
                      [message |-> parse_message(msgs[i]), date |-> <<>>,
                       user |-> msgs[i].thumb]]]

\* ChatParser.parse_messages on the divs of the content; None is <<>>, a
\* value v is <<v>>
parse_messages(elements) ==
    LET found == SelectSeq(elements, LAMBDA e : \E c \in 1..Len(e.class) :
                                        e.class[c] \in {"pm_date", "pm_msg"})
        RECURSIVE Loop(_, _, _, _)
        Loop(i, user, date, messages) ==
            IF i > Len(found) THEN [kind |-> "list", type |-> "", items |-> messages]
            ELSE IF \E c \in 1..Len(found[i].class) : found[i].class[c] = "pm_date"
            THEN Loop(i + 1, user, <<found[i].text>>, messages)
            ELSE IF found[i].thumb = <<"">>
            THEN [kind |-> "error", type |-> "TypeError", items |-> <<>>]
            ELSE LET u == IF found[i].thumb # <<>> THEN found[i].thumb ELSE user
                 IN  Loop(i + 1, u, date,
                          Append(messages, [message |-> parse_message(found[i]),
                                            date |-> date, user |-> u]))
    IN  Loop(1, <<>>, <<>>, <<>>)

\* int(text) of Python for a text of digits and blanks
IntOf(text) ==
    LET t == Strip(text)
        digit(a) == \E d \in 0..9 : ToString(d) = a
        RECURSIVE Value(_)
        Value(q) == IF q = <<>> THEN 0
                    ELSE 10 * Value(SubSeq(q, 1, Len(q) - 1))
                         + (CHOOSE d \in 0..9 : ToString(d) = q[Len(q)])
    IN  IF t # <<>> /\ \A i \in 1..Len(t) : digit(t[i])
        THEN [ok |-> TRUE, v |-> Value(t)]
        ELSE [ok |-> FALSE, v |-> 0]

\* ProfileParser._extract_name_age_sex on the text of .profileBox and the
\* src of its img; None is <<>>, a value v is <<v>>
extract_name_age_sex(text, src) ==
    LET file_name == Split(src, "/")[Len(Split(src, "/"))]
        sex == SliceTo(file_name, -7)
        lines == Split(text, "\n")
        pieces == SelectSeq([i \in 1..Len(lines) |-> Strip(lines[i])],
                            LAMBDA l : l # <<>>)
        piece == SelectSeq(pieces[2], LAMBDA a : a # "y.o.")
        na == Split(piece, ", ")
    IN  IF Len(pieces) < 2
        THEN [kind |-> "error", type |-> "IndexError", name |-> <<>>, age |-> <<>>, sex |-> <<>>]
        ELSE IF Len(na) # 2
        THEN \* na.isdigit() on the list na
             [kind |-> "error", type |-> "AttributeError", name |-> <<>>, age |-> <<>>, sex |-> <<>>]
        ELSE IF ~IntOf(na[2]).ok
        THEN [kind |-> "error", type |-> "ValueError", name |-> <<>>, age |-> <<>>, sex |-> <<>>]
        ELSE [kind |-> "value", type |-> "", name |-> <<na[1]>>,
              age |-> <<IntOf(na[2]).v>>, sex |-> <<sex>>]

RECURSIVE SeqsUpTo(_, _)
SeqsUpTo(S, n) ==
    IF n = 0 THEN { <<>> }
    ELSE SeqsUpTo(S, n - 1)
         \cup { Append(q, e) : q \in SeqsUpTo(S, n - 1), e \in S }

InitParsers ==
    /\ mode = "sync"
    /\ username = <<>>
    /\ password = <<>>
    /\ LoginIdle
    /\ ApiIdle
    /\ StoreIdle
    /\ JarIdle
    /\ SearchIdle
    /\ methodRun = [pc |-> "idle"]
    /\ chatRun = [pc |-> "idle"]
    /\ concRun = [pc |-> "idle"]
    /\ \/ \E elements \in SeqsUpTo(
                { PmElement(<<"pm_date">>, <<"Mon">>, <<>>, <<>>),
                  PmElement(<<"pm_date">>, <<"Tue">>, <<>>, <<>>),
                  PmElement(<<"pm_msg">>, <<" ", "A", " ">>, <<"/u1">>, <<"m", "s", "g", "_", "1">>),
                  PmElement(<<"pm_msg">>, <<"B">>, <<>>, <<"m", "s", "g", "_", "2">>),
                  PmElement(<<"pm_msg", "pm_unread">>, <<"C">>, <<"/u2">>, <<"m", "s", "g", "_", "3">>),
                  PmElement(<<"pm_msg">>, <<"D">>, <<"">>, <<"m", "s", "g", "_", "4">>),
                  PmElement(<<"msg_body">>, <<"A">>, <<>>, <<>>) }, MaxElements) :
             parserRun = [pc |-> "ready", kind |-> "messages", input |-> elements,
                          src |-> <<>>, out |-> <<>>]
       \/ \E piece \in { <<"Jane", ", ", "2", "5", " ", "y.o.">>, <<"Jane", ", ", "2", "5">>,
                         <<"4", "2">>, <<"4", "2", " ", "y.o.">>, <<"Jane">>,
                         <<"Jane", ", ", "Doe", ", ", "2", "5">>,
                         <<"Jane", ", ", "y.o.">>, <<>> },
             icon \in { <<"m", "a", "l", "e">>, <<"f", "e", "m", "a", "l", "e">> } :
             parserRun = [pc |-> "ready", kind |-> "name_age_sex",
                          input |-> <<" ", "\n", " ", "Profile", " ", "\n">> \o piece
                                    \o <<"\n", "Joined", "\n">>,
                          src |-> <<"", "/", "images", "/">> \o icon
                                  \o <<"-", "1", "4", ".", "p", "n", "g">>,
                          out |-> <<>>]

\* ChatParser.parse_messages
ChatParser_parse_messages ==
    /\ parserRun.pc = "ready"
    /\ parserRun.kind = "messages"
    /\ parserRun' = [parserRun EXCEPT !.pc = "done",
                                      !.out = parse_messages(parserRun.input)]
    /\ UNCHANGED <<baseVars, methodRun, chatRun, concRun>>

\* ProfileParser._extract_name_age_sex
ProfileParser_extract_name_age_sex ==
    /\ parserRun.pc = "ready"
    /\ parserRun.kind = "name_age_sex"
    /\ parserRun' = [parserRun EXCEPT !.pc = "done",
                        !.out = extract_name_age_sex(parserRun.input, parserRun.src)]
    /\ UNCHANGED <<baseVars, methodRun, chatRun, concRun>>

NextParsers ==
    \/ ChatParser_parse_messages
    \/ ProfileParser_extract_name_age_sex

SpecParsers == InitParsers /\ [][NextParsers]_vars

-----------------------------------------------------------------------------
(* api.py: the methods of Api and their counterparts of ApiAsync *)

\* the request a method makes for user "bob", uid "7", thread "9", message
\* "hi": verb, url, params, and check_auth as Api and as ApiAsync pass it
MethodCall(method) ==
    LET get(url, params, ca) ==
            [verb |-> "get", url |-> url, params |-> params, check_auth |-> ca,
             check_auth_async |-> TRUE]
    IN  CASE method = "check_auth"    -> get(result.session.username, NoParams, FALSE)
          [] method = "view"          -> get(<<"bob">>, NoParams, TRUE)
          [] method = "profile"       -> get(<<"bob">>, NoParams, TRUE)
          [] method = "get_thread_id" ->
                get(<<"/", "pm.php">>,
                    [some |-> TRUE,
                     items |-> << <<"action", <<"send">>>>, <<"uid", <<"7">>>> >>], FALSE)
          [] method = "chat_send"     ->
                [verb |-> "post", url |-> <<"/", "pm.php">>,
                 params |-> [some |-> TRUE,
                             items |-> << <<"action", <<"send_message">>>>,
                                          <<"thread", <<"9">>>>,
                                          <<"message", <<"hi">>>> >>],
                 check_auth |-> FALSE, check_auth_async |-> FALSE]
          [] method = "friend_add"    ->
                get(<<"/", "app/friends/add", "?", "uid", "=", "7">>, NoParams, FALSE)
          [] method = "friend_remove" ->
                get(<<"/", "app/friends/delete", "?", "uid", "=", "7">>, NoParams, FALSE)

\* the request _get, _post (lib "requests") or _request (lib "aiohttp") sends
MethodRequest(lib, method) ==
    LET c == MethodCall(method)
        url == IF c.verb = "get" /\ c.params.some
               THEN c.url \o <<"?">> \o urlencode(c.params.items) ELSE c.url
    IN  Request(lib, IF c.verb = "post" THEN "POST" ELSE "GET",
                IF lib = "aiohttp"
                THEN get_full_url(c.url, IF c.verb = "get" THEN c.params ELSE NoParams)
                ELSE get_full_url(url, NoParams),
                IF c.verb = "post"
                THEN Append(get_headers(result.session), ContentTypeForm)
                ELSE get_headers(result.session),
                IF c.verb = "post" THEN c.params.items ELSE <<>>,
                ApiAllowRedirects)

\* what a method gives back: a value (None is <<>>) or a raised exception
MethodValue(v) == [kind |-> "value", type |-> "", value |-> v]

MethodRaise(type) == [kind |-> "error", type |-> type, value |-> <<>>]

\* parse_qs(urlparse(location).query)['thread_id'][0]
ThreadIdOf(loc) ==
    IF Contains(loc, "thread_id")
    THEN MethodValue(<<loc[Find(loc, "thread_id") + 3]>>)
    ELSE MethodRaise("KeyError")

\* ProfileParser.parse: the first extractor needs the .profileBox element
ProfileOf(body) ==
    IF Contains(body, "<div class=\"profileBox\">")
    THEN MethodValue(<<"profile of bob">>)
    ELSE MethodRaise("AttributeError")

\* the methods of Api on the response resp
ApiMethod(method, resp) ==
    LET out == SyncOutcome(resp, MethodCall(method).check_auth)
    IN  IF out.kind = "error" THEN MethodRaise(out.type)
        ELSE CASE method = "check_auth" ->
                    MethodValue(IF check_body_for_auth(resp.text)
                                THEN <<"True">> ELSE <<"False">>)
               [] method = "view" -> MethodValue(<<>>)
               [] method = "profile" ->
                    IF Contains(resp.text, "User not found.")
                    THEN MethodRaise("APIError") ELSE ProfileOf(resp.text)
               [] method = "get_thread_id" ->
                    IF resp.status # 301 THEN MethodRaise("AssertionError")
                    ELSE IF ~HasHeader(resp.headers, "Location")
                    THEN MethodRaise("KeyError")
                    ELSE ThreadIdOf(GetHeader(resp.headers, "Location"))
               [] method = "chat_send" ->
                    IF Contains(resp.text, "\"error\"") THEN MethodRaise("AssertionError")
                    ELSE MethodValue(<<>>)
               [] method \in {"friend_add", "friend_remove"} ->
                    IF resp.status # 302 THEN MethodRaise("APIError")
                    ELSE MethodValue(<<>>)

\* the methods of ApiAsync on the response resp
ApiAsyncMethod(method, resp) ==
    LET out == AsyncOutcome(resp, MethodCall(method).check_auth_async)
    IN  CASE method = "check_auth" ->
               IF out.kind # "error" THEN MethodValue(<<"True">>)
               ELSE IF out.type = "APIAuthError" THEN MethodValue(<<"False">>)
               ELSE MethodRaise(out.type)
          [] method = "view" ->
               IF out.kind = "error" THEN MethodRaise(out.type) ELSE MethodValue(<<>>)
          [] method = "profile" ->
               IF out.kind = "error" THEN MethodRaise(out.type)
               ELSE IF Contains(out.body, "User not found.")
               THEN MethodRaise("APIError")
               ELSE IF Contains(out.body,
                        "Sorry, this user's privacy settings do not allow you to contact them.")
               THEN MethodRaise("APIError")
               ELSE ProfileOf(out.body)
          [] method = "get_thread_id" ->
               IF out.kind # "error" THEN MethodRaise("APIError")
               ELSE IF out.type = "APIRedirectError" THEN ThreadIdOf(out.args[2])
               ELSE MethodRaise(out.type)
          [] method = "chat_send" ->
               IF out.kind = "error" THEN MethodRaise(out.type)
               ELSE IF Contains(out.body, "\"error\"") THEN MethodRaise("APIError")
               ELSE MethodValue(<<>>)
          [] method \in {"friend_add", "friend_remove"} ->
               IF out.kind # "error" THEN MethodRaise("APIError")
               ELSE IF out.type = "APIRedirectError" THEN MethodValue(<<>>)
               ELSE MethodRaise(out.type)

\* api = Api(session) and api_async = ApiAsync(session); one method is to be
\* called on each, and the server answers both calls with the same response
InitMethods ==
    /\ mode = "sync"
    /\ username = <<"alice">>
    /\ password = <<>>
    /\ pc = "Anonymous"
    /\ cookie = <<>>
    /\ csrf_token = <<>>
    /\ location = <<>>
    /\ requests = <<>>
    /\ rootResp = NoResp
    /\ postResp = NoResp
    /\ locResp = NoResp
    /\ result = NewSession(<<"alice">>, <<"a">>, <<"b">>)
    /\ ApiIdle
    /\ StoreIdle
    /\ JarIdle
    /\ SearchIdle
    /\ parserRun = [pc |-> "idle"]
    /\ chatRun = [pc |-> "idle"]
    /\ concRun = [pc |-> "idle"]
    /\ \E method \in {"check_auth", "view", "profile", "get_thread_id", "chat_send",
                      "friend_add", "friend_remove"},
          st \in {200, 301, 302},
          loc \in { <<>>, <<"/", "pm.php", "?", "thread_id", "=", "9">>, <<"/">> },
          body \in { <<"<html>", AuthMarker>>, <<"<html>">>,
                     <<"{", "\"error\"", ":", "\"blocked\"", "}">>,
                     <<"<html>", AuthMarker, "User not found.">>,
                     <<"<html>", AuthMarker, "<div class=\"profileBox\">">>,
                     <<"<html>", AuthMarker, "<div class=\"profileBox\">",
                       "Sorry, this user's privacy settings do not allow you to contact them.">> } :
          methodRun = [pc |-> "ready", method |-> method,
                       resp |-> [status |-> st,
                                 headers |-> IF loc = <<>> THEN <<>>
                                             ELSE << <<"Location", loc>> >>,
                                 text |-> body],
                       sync |-> [kind |-> "none"], async |-> [kind |-> "none"],
                       syncReq |-> <<>>, asyncReq |-> <<>>]

\* a method of Api is called
Api_method ==
    /\ methodRun.pc = "ready"
    /\ methodRun.sync.kind = "none"
    /\ methodRun' = [methodRun EXCEPT
            !.sync = ApiMethod(methodRun.method, methodRun.resp),
            !.syncReq = <<MethodRequest("requests", methodRun.method)>>]
    /\ requests' = Append(requests, MethodRequest("requests", methodRun.method))
    /\ UNCHANGED <<parserRun, chatRun, concRun>>
    /\ UNCHANGED <<loginVars, apiVars, storeVars, jarVars, searchVars>>

\* the same method of ApiAsync is called and awaited
ApiAsync_method ==
    /\ methodRun.pc = "ready"
    /\ methodRun.async.kind = "none"
    /\ methodRun' = [methodRun EXCEPT
            !.async = ApiAsyncMethod(methodRun.method, methodRun.resp),
            !.asyncReq = <<MethodRequest("aiohttp", methodRun.method)>>]
    /\ requests' = Append(requests, MethodRequest("aiohttp", methodRun.method))
    /\ UNCHANGED <<parserRun, chatRun, concRun>>
    /\ UNCHANGED <<loginVars, apiVars, storeVars, jarVars, searchVars>>

NextMethods ==
    \/ Api_method
    \/ ApiAsync_method

SpecMethods == InitMethods /\ [][NextMethods]_vars

-----------------------------------------------------------------------------
(* api.py: chat, the list of chat threads fetched page by page *)

MaxCount == 3

\* while len(chats) < count, with <= in the place of <
ChatWanted_oneMore(chats, count) == Len(chats) <= count

\* while len(chats) < count
ChatWanted(chats, count) == Len(chats) < count

\* Api.chat (lib "requests") and ApiAsync.chat (lib "aiohttp") of a session:
\* first is the response to the GET of /pm.php, pages[k] the response to the
\* k-th more_threads POST (the last one again for every later POST)
Chat(lib, sess, count, offset, first, pages) ==
    LET threads_left == "<div id=\"threads_left\" data-max-msg-id=\""
        pmNewCnt == "<span id=\"pmNewCnt\">"
        After(text, atom) == SubSeq(text, Find(text, atom) + 2, Len(text))
        Until(text, atom) == SliceTo(text, Find(text, atom))
        Outcome(resp, check_auth) ==
            IF lib = "aiohttp" THEN AsyncOutcome(resp, check_auth)
            ELSE SyncOutcome(resp, check_auth)
        TextOf(out) == IF lib = "aiohttp" THEN out.body ELSE out.resp.text
        Raise(type, reqs) ==
            [kind |-> "error", type |-> type, chats |-> <<>>, unread |-> 0,
             reqs |-> reqs]
        get == Request(lib, "GET", get_full_url(<<"/", "pm.php">>, NoParams),
                       get_headers(sess), <<>>, ApiAllowRedirects)
        post(off, maxmsgid) ==
            Request(lib, "POST", get_full_url(<<"/", "pm.php">>, NoParams),
                    Append(get_headers(sess), ContentTypeForm),
                    << <<"action", <<"more_threads">>>>,
                       <<"from", <<ToString(off)>>>>,
                       <<"filter", <<"all">>>>,
                       <<"max_msg_id", <<ToString(maxmsgid)>>>> >>,
                    ApiAllowRedirects)
        opened == Outcome(first, TRUE)
        html == TextOf(opened)
        maxmsgid == IntOf(Until(After(html, threads_left), "\">"))
        unreadText == Strip(Until(After(html, pmNewCnt), "</span>"))
        unread == IntOf(SubSeq(unreadText, 3, Len(unreadText) - 1))
        Return(chats, reqs) ==
            [kind |-> "value", type |-> "", chats |-> chats,
             unread |-> IF unreadText = <<>> THEN 0 ELSE unread.v, reqs |-> reqs]
        RECURSIVE Loop(_, _, _, _)
        Loop(k, off, chats, reqs) ==
            IF ~ChatWanted(chats, count) THEN Return(chats, reqs)
            ELSE LET sent == Append(reqs, post(off, maxmsgid.v))
                     out == Outcome(pages[IF k < Len(pages) THEN k ELSE Len(pages)],
                                    FALSE)
                     text == TextOf(out)
                     items == SelectSeq(text, LAMBDA a : a \in {"t1", "t2", "t3", "t4"})
                     room == count - Len(chats)
                 IN  IF out.kind = "error" THEN Raise(out.type, sent)
                     ELSE IF text = <<>> THEN Raise("JSONDecodeError", sent)
                     ELSE IF text[1] # "{\"body\":" THEN Raise("KeyError", sent)
                     ELSE IF items = <<>>
                     THEN Return(chats, sent)
                     ELSE Loop(k + 1, off + Len(items),
                               chats \o SubSeq(items, 1, IF Len(items) < room
                                                         THEN Len(items)
                                                         ELSE IF room < 1 THEN 1
                                                         ELSE room),
                               sent)
    IN  IF opened.kind = "error" THEN Raise(opened.type, <<get>>)
        ELSE IF ~Contains(html, threads_left) THEN Raise("TypeError", <<get>>)
        ELSE IF ~maxmsgid.ok THEN Raise("ValueError", <<get>>)
        ELSE IF ~Contains(html, pmNewCnt) THEN Raise("AttributeError", <<get>>)
        ELSE IF unreadText # <<>> /\ ~unread.ok THEN Raise("ValueError", <<get>>)
        ELSE Loop(1, offset, <<>>, <<get>>)

\* api.chat(count, offset) is about to be called on Api(session) or on
\* ApiAsync(session); the server's responses are scripted
InitChat ==
    /\ mode \in {"sync", "async"}
    /\ username = <<"alice">>
    /\ password = <<>>
    /\ pc = "Anonymous"
    /\ cookie = <<>>
    /\ csrf_token = <<>>
    /\ location = <<>>
    /\ requests = <<>>
    /\ rootResp = NoResp
    /\ postResp = NoResp
    /\ locResp = NoResp
    /\ result = NewSession(<<"alice">>, <<"a">>, <<"b">>)
    /\ ApiIdle
    /\ StoreIdle
    /\ JarIdle
    /\ SearchIdle
    /\ parserRun = [pc |-> "idle"]
    /\ methodRun = [pc |-> "idle"]
    /\ concRun = [pc |-> "idle"]
    /\ LET page(st, loc, text) ==
               [status |-> st,
                headers |-> IF loc = <<>> THEN <<>> ELSE << <<"Location", loc>> >>,
                text |-> text]
           threads(ts) == page(200, <<>>, <<"{\"body\":">> \o ts \o <<"}">>)
           left == <<"<div id=\"threads_left\" data-max-msg-id=\"", "7", "7", "\">">>
           cnt == <<"<span id=\"pmNewCnt\">", " ", "(", "+", "3", ")", "</span>">>
       IN  \E count \in -1..MaxCount, offset \in {0, 5},
              first \in { page(200, <<>>, <<"<html>", AuthMarker>> \o left \o cnt),
                          page(200, <<>>, <<"<html>", AuthMarker>> \o left
                                          \o <<"<span id=\"pmNewCnt\">", "</span>">>),
                          page(200, <<>>, <<"<html>", AuthMarker>> \o cnt),
                          page(200, <<>>, <<"<html>">> \o left \o cnt),
                          page(302, <<"/", "login">>, <<>>) },
              pages \in { << threads(<<>>) >>,
                          << threads(<<"t1">>) >>,
                          << threads(<<"t1", "t2">>), threads(<<>>) >>,
                          << threads(<<"t1", "t2">>), threads(<<"t3">>), threads(<<>>) >>,
                          << threads(<<"t1">>), threads(<<>>), threads(<<"t2">>) >>,
                          << threads(<<"t1", "t2">>), threads(<<"t3", "t4">>) >>,
                          << threads(<<"t1">>), page(200, <<>>, <<"{}">>) >>,
                          << threads(<<"t1">>), page(302, <<"/", "login">>, <<>>) >> } :
              chatRun = [pc |-> "ready", count |-> count, offset |-> offset,
                         first |-> first, pages |-> pages,
                         out |-> [kind |-> "none"]]

\* Api.chat
Api_chat ==
    /\ mode = "sync"
    /\ chatRun.pc = "ready"
    /\ LET out == Chat("requests", result.session, chatRun.count, chatRun.offset,
                       chatRun.first, chatRun.pages)
       IN  /\ chatRun' = [chatRun EXCEPT !.pc = "done", !.out = out]
           /\ requests' = out.reqs
    /\ UNCHANGED <<parserRun, methodRun, concRun>>
    /\ UNCHANGED <<loginVars, apiVars, storeVars, jarVars, searchVars>>

\* ApiAsync.chat
ApiAsync_chat ==
    /\ mode = "async"
    /\ chatRun.pc = "ready"
    /\ LET out == Chat("aiohttp", result.session, chatRun.count, chatRun.offset,
                       chatRun.first, chatRun.pages)
       IN  /\ chatRun' = [chatRun EXCEPT !.pc = "done", !.out = out]
           /\ requests' = out.reqs
    /\ UNCHANGED <<parserRun, methodRun, concRun>>
    /\ UNCHANGED <<loginVars, apiVars, storeVars, jarVars, searchVars>>

NextChat ==
    \/ Api_chat
    \/ ApiAsync_chat

SpecChat == InitChat /\ [][NextChat]_vars

-----------------------------------------------------------------------------
(* api.py, session.py: operations that run at the same time *)

\* the locals of operation i, with the search offset kept in one slot that
\* all operations share
OwnFrame_shared(frames, i) == [frames[i] EXCEPT !.offset = frames[1].offset]

\* the locals of operation i: the frame of its call or of its generator
OwnFrame(frames, i) == frames[i]

\* one step of an operation on its frame f, from one request to the next
\* suspension: Api.view / ApiAsync.view, Api.search / ApiAsync.search,
\* Session.login / SessionAsync.login; the Session is read through
\* _get_headers only
OpStep(lib, f) ==
    LET resp == Head(f.script)
        rest == Tail(f.script)
        out == SearchOutcome(lib, resp)
        Done(g, kind, type, sess) ==
            [g EXCEPT !.pc = "done",
                      !.out = [kind |-> kind, type |-> type, session |-> sess]]
        Sent(r) == [f EXCEPT !.reqs = Append(f.reqs, r), !.script = rest,
                             !.steps = f.steps + 1]
    IN  CASE f.kind = "view" ->
               LET g == Sent(SearchGet(lib, <<"bob">>))
               IN  IF out.kind = "error" THEN Done(g, "error", out.type, NoSession)
                   ELSE Done(g, "value", "", NoSession)
          [] f.kind = "search" /\ f.pc = "start" ->
               LET g == Sent(SearchGet(lib, <<"/", "app/search">>))
                   token == find_csrf_token(SearchBody(out))
               IN  IF out.kind = "error" THEN Done(g, "error", out.type, NoSession)
                   ELSE [g EXCEPT !.pc = "fetch", !.offset = 0,
                                  !.params = WithToken(
                                      prepare_search_params(f.options, f.options.city),
                                      token)]
          [] f.kind = "search" /\ f.pc = "fetch" ->
               LET p == SetItem(f.params, "offset", << <<ToString(f.offset)>> >>)
                   g == [Sent(SearchGet(lib, <<"/", "app/search", "?">>
                                             \o urlencode_doseq(p)))
                            EXCEPT !.params = p]
                   users == parse_search_result(SearchBody(out))
               IN  IF out.kind = "error" THEN Done(g, "error", out.type, NoSession)
                   ELSE IF users = <<>> THEN Done(g, "value", "", NoSession)
                   ELSE [g EXCEPT !.pc = "yield", !.users = users, !.idx = 1,
                                  !.got = Append(f.got, users[1])]
          [] f.kind = "search" /\ f.pc = "yield" ->
               LET g == [f EXCEPT !.offset = OffsetAfterYield(f.offset),
                                  !.steps = f.steps + 1]
               IN  IF LimitReached(g.offset, f.limit)
                   THEN Done(g, "value", "", NoSession)
                   ELSE IF f.idx < Len(f.users)
                   THEN [g EXCEPT !.idx = f.idx + 1,
                                  !.got = Append(f.got, f.users[f.idx + 1])]
                   ELSE [g EXCEPT !.pc = "fetch"]
          [] f.kind = "login" /\ f.pc = "start" ->
               LET g == Sent(Request(lib, "GET", RootUrl, <<>>, <<>>,
                                     DefaultAllowRedirects))
                   set_cookie == from_response_headers(resp.headers)
                   tok == find_csrf_token(resp.text)
               IN  IF ~set_cookie.ok THEN Done(g, "error", "ValueError", NoSession)
                   ELSE IF ~tok.found
                   THEN Done([g EXCEPT !.store = Update(f.store, set_cookie.cookie)],
                             "error", "NoCSRFTokenError", NoSession)
                   ELSE [g EXCEPT !.pc = "post", !.token = tok.token,
                                  !.store = Update(f.store, set_cookie.cookie)]
          [] f.kind = "login" /\ f.pc = "post" ->
               LET g == Sent(Request(lib, "POST", LoginUrl,
                                     << ContentTypeForm,
                                        <<"Cookie", as_string(f.store)>>,
                                        <<"Referer", <<"https://www.interpals.net", "/">>>> >>,
                                     << <<"username", <<"bob">>>>,
                                        <<"password", <<"secret">>>>,
                                        <<"csrf_token", f.token>> >>,
                                     FALSE))
                   set_cookie == from_response_headers(resp.headers)
                   branch == StatusBranch(resp)
               IN  IF ~set_cookie.ok THEN Done(g, "error", "ValueError", NoSession)
                   ELSE IF branch.kind = "error"
                   THEN Done([g EXCEPT !.store = Update(f.store, set_cookie.cookie)],
                             "error", branch.type, NoSession)
                   ELSE [g EXCEPT !.pc = "follow",
                                  !.store = Update(f.store, set_cookie.cookie),
                                  !.loc = GetHeader(resp.headers, "Location")]
          [] f.kind = "login" /\ f.pc = "follow" ->
               LET g == Sent(Request(lib, "GET",
                                     urljoin(<<"https://www.interpals.net">>, f.loc),
                                     << ContentTypeForm,
                                        <<"Cookie", as_string(f.store)>> >>,
                                     <<>>, DefaultAllowRedirects))
                   made == CreateSession(<<"bob">>, f.store)
               IN  IF TooManyAttempts(resp.text)
                   THEN Done(g, "error", "TooManyLoginAttemptsError", NoSession)
                   ELSE IF made.kind = "error"
                   THEN Done(g, "error", made.type, NoSession)
                   ELSE Done(g, "value", "", made.session)

\* operation i runs up to its next suspension; no other frame is touched
ConcStep(i) ==
    /\ concRun.pc = "running"
    /\ concRun.frames[i].pc # "done"
    /\ concRun' = [concRun EXCEPT
          !.frames[i] = OpStep(IF mode = "sync" THEN "requests" ELSE "aiohttp",
                               OwnFrame(concRun.frames, i))]
    /\ requests' = requests \o SubSeq(concRun'.frames[i].reqs,
                                      Len(concRun.frames[i].reqs) + 1,
                                      Len(concRun'.frames[i].reqs))
    /\ UNCHANGED <<parserRun, methodRun, chatRun>>
    /\ UNCHANGED <<loginVars, apiVars, storeVars, jarVars, searchVars>>

\* two operations are started on one Api (ApiAsync) of one Session: calls of
\* view, search iterators, login handshakes; each has its scripted responses
InitConc ==
    /\ mode \in {"sync", "async"}
    /\ username = <<"alice">>
    /\ password = <<>>
    /\ pc = "Anonymous"
    /\ cookie = <<>>
    /\ csrf_token = <<>>
    /\ location = <<>>
    /\ requests = <<>>
    /\ rootResp = NoResp
    /\ postResp = NoResp
    /\ locResp = NoResp
    /\ result = NewSession(<<"alice">>, <<"a">>, <<"b">>)
    /\ ApiIdle
    /\ StoreIdle
    /\ JarIdle
    /\ SearchIdle
    /\ parserRun = [pc |-> "idle"]
    /\ methodRun = [pc |-> "idle"]
    /\ chatRun = [pc |-> "idle"]
    /\ LET page(st, headers, text) == [status |-> st, headers |-> headers, text |-> text]
           form == page(200, <<>>, <<"<html>", AuthMarker, MetaOpen, "t", "k", "\"", ">">>)
           rows(first, n) ==
               page(200, <<>>, <<"<html>", AuthMarker>> \o ResultRows(first, n)
                               \o <<"</html>">>)
           frame(kind, options, limit, script) ==
               [kind |-> kind, pc |-> "start", options |-> options, limit |-> limit,
                offset |-> 0, params |-> <<>>, users |-> <<>>, idx |-> 0,
                store |-> <<>>, token |-> <<>>, loc |-> <<>>, reqs |-> <<>>,
                got |-> <<>>, steps |-> 0,
                out |-> [kind |-> "none", type |-> "", session |-> NoSession],
                script |-> script]
           plain == [online |-> FALSE, cityName |-> <<>>, city |-> <<>>]
           paris == [online |-> TRUE, cityName |-> <<"Paris">>, city |-> <<"2988507">>]
           ops == { frame("view", plain, 0, << page(200, <<>>, <<"<html>", AuthMarker>>) >>),
                    frame("view", plain, 0,
                          << page(302, << <<"Location", <<"/">>>> >>, <<>>) >>),
                    frame("search", plain, 3, << form, rows(1, 2), rows(3, 2) >>),
                    frame("search", paris, 2, << form, rows(7, 1), rows(8, 0) >>),
                    frame("search", plain, 5, << form, rows(1, 1), page(200, <<>>, <<"<html>">>) >>),
                    frame("login", plain, 0,
                          << page(200, << <<"Set-Cookie", SC_both>> >>,
                                  <<"<html>", MetaOpen, "t", "k", "\"", ">">>),
                             page(302, << <<"Set-Cookie", SC_sess>>,
                                          <<"Location", <<"/">>>> >>, <<"<html>">>),
                             page(200, <<>>, <<"<html>", AuthMarker>>) >>),
                    frame("login", plain, 0,
                          << page(200, << <<"Set-Cookie", SC_csrf>> >>,
                                  <<"<html>", MetaOpen, "t", "k", "\"", ">">>),
                             page(200, <<>>, <<"<html>">>) >>) }
       IN  \E f1 \in ops, f2 \in ops :
              concRun = [pc |-> "running", start |-> <<f1, f2>>, frames |-> <<f1, f2>>]

\* a call of view goes on
Conc_view == \E i \in 1..2 : concRun.frames[i].kind = "view" /\ ConcStep(i)

\* a search iterator goes on: next() up to the yield or the return
Conc_search == \E i \in 1..2 : concRun.frames[i].kind = "search" /\ ConcStep(i)

\* a login handshake goes on
Conc_login == \E i \in 1..2 : concRun.frames[i].kind = "login" /\ ConcStep(i)

NextConc ==
    \/ Conc_view
    \/ Conc_search
    \/ Conc_login

SpecConc == InitConc /\ [][NextConc]_vars

-----------------------------------------------------------------------------
(* Properties of the login handshake *)

\* the store parsed from one response's Set-Cookie headers
Parsed(resp) == from_response_headers(resp.headers)

PostAnswered == postResp # NoResp

\* a GET of the Location was issued (the third request of the handshake)
FollowIssued == Len(requests) >= 3

IsSession == result.kind = "session"

\* C1 as stated: whenever the login POST was answered with status 200, login
\* failed with WrongUsernameOrPasswordError, a SessionError, returned no
\* Session and issued no GET of a Location.
C1_Original ==
    (PostAnswered /\ postResp.status = 200) =>
        /\ result.kind = "error"
        /\ result.type = "WrongUsernameOrPasswordError"
        /\ IsInstance(result.type, "SessionError")
        /\ ~FollowIssued

\* C1 amended: whenever the login POST was answered with status 200, login
\* returned no Session and issued no GET of a Location; it failed with
\* WrongUsernameOrPasswordError (a SessionError) when the Set-Cookie headers
\* of that response merged without a parse error, and with the ValueError of
\* the parse otherwise.
C1_WrongCredentials ==
    (PostAnswered /\ postResp.status = 200) =>
        /\ result.kind = "error"
        /\ ~IsSession
        /\ ~FollowIssued
        /\ Parsed(postResp).ok =>
              /\ result.type = "WrongUsernameOrPasswordError"
              /\ IsInstance(result.type, "SessionError")
        /\ ~Parsed(postResp).ok => result.type = "ValueError"

C1_Witness ==
    /\ postResp.status = 200
    /\ Parsed(postResp).ok
    /\ result.type = "WrongUsernameOrPasswordError"

\* C2: whenever the login POST was answered with 302 and the body of the
\* followed Location contains the too-many-attempts marker, login failed with
\* TooManyLoginAttemptsError and returned no Session.
C2_TooManyAttempts ==
    (postResp.status = 302 /\ locResp # NoResp
        /\ Contains(locResp.text, "Too many unsuccessful login attempts.")) =>
        /\ result.kind = "error"
        /\ result.type = "TooManyLoginAttemptsError"
        /\ result.session = NoSession
        /\ pc = "Rejected"

C2_Witness ==
    /\ postResp.status = 302
    /\ FollowIssued
    /\ Contains(locResp.text, "Too many unsuccessful login attempts.")
    /\ HasKey(cookie, <<"interpals_sessid">>)
    /\ HasKey(cookie, <<"csrf_cookieV2">>)
    /\ result.type = "TooManyLoginAttemptsError"

\* C3 as stated: whenever the login POST was answered with a status other
\* than 200 and 302, login failed with a SessionError, returned no Session and
\* issued no further request.
C3_Original ==
    (PostAnswered /\ postResp.status \notin {200, 302}) =>
        /\ result.kind = "error"
        /\ IsInstance(result.type, "SessionError")
        /\ Len(requests) = 2

\* C3 amended: whenever the login POST was answered with a status other than
\* 200 and 302, login returned no Session and issued no further request; it
\* failed with the plain SessionError "Unknown response status while login"
\* when the Set-Cookie headers of that response merged without a parse error,
\* and with the ValueError of the parse otherwise.
C3_UnknownStatus ==
    (PostAnswered /\ postResp.status \notin {200, 302}) =>
        /\ result.kind = "error"
        /\ ~IsSession
        /\ Len(requests) = 2
        /\ Parsed(postResp).ok =>
              /\ result.type = "SessionError"
              /\ result.args = << <<"Unknown response status while login: ",
                                    StatusStr(postResp.status)>> >>
        /\ ~Parsed(postResp).ok => result.type = "ValueError"

C3_Witness ==
    /\ postResp.status = 301
    /\ HasHeader(postResp.headers, "Location")
    /\ Parsed(postResp).ok
    /\ result.type = "SessionError"

\* the body of the site-root response carries no CSRF meta tag that closes
\* on its line
NoTokenInRoot ==
    /\ rootResp # NoResp
    /\ ~\E i \in 1..Len(rootResp.text) :
          /\ rootResp.text[i] = MetaOpen
          /\ \E j \in (i+1)..Len(rootResp.text) :
                /\ rootResp.text[j] = "\""
                /\ \A k \in (i+1)..j : rootResp.text[k] # "\n"

\* the Extractor ran on the site-root body: line 106 is reached only when
\* the merge of lines 102-103 returned
ExtractorRan == rootResp # NoResp /\ Parsed(rootResp).ok

\* C4: whenever the Extractor ran on the site-root body and found no token,
\* login failed with NoCSRFTokenError; no credentialed POST is ever issued
\* for a site-root body without a token, and the handshake is past Anonymous
\* (TokenAcquired, Submitted, Confirmed, or a POST issued) only when a token
\* was found.
C4_NoToken ==
    /\ (ExtractorRan /\ NoTokenInRoot) =>
          /\ result.kind = "error"
          /\ result.type = "NoCSRFTokenError"
          /\ IsInstance(result.type, "SessionError")
          /\ pc = "Rejected"
    /\ NoTokenInRoot =>
          /\ Len(requests) = 1
          /\ ~IsSession
          /\ \A i \in 1..Len(requests) : requests[i].method # "POST"
    /\ (pc \in {"TokenAcquired", "Submitted", "Confirmed"} \/ Len(requests) >= 2)
          => ~NoTokenInRoot

C4_Witness ==
    /\ ExtractorRan
    /\ NoTokenInRoot
    /\ Contains(rootResp.text, MetaOpen)
    /\ Parsed(rootResp).cookie # <<>>
    /\ result.type = "NoCSRFTokenError"
    /\ Len(requests) = 1

\* C5 as stated: whenever the POST was answered with 302, the followed body
\* has no too-many-attempts marker and one of the two session cookies is
\* missing from the store, login failed with a SessionError.
C5_Claim ==
    (postResp.status = 302 /\ locResp # NoResp
        /\ ~Contains(locResp.text, "Too many unsuccessful login attempts.")
        /\ (~HasKey(cookie, <<"interpals_sessid">>)
                \/ ~HasKey(cookie, <<"csrf_cookieV2">>))) =>
        /\ result.kind = "error"
        /\ IsInstance(result.type, "SessionError")

\* the value the store must hold for key k after the site-root response and
\* then the login response were merged: the login response's value if it set
\* k, the site-root response's value otherwise
MergedValue(k) ==
    IF HasKey(Parsed(postResp).cookie, k)
    THEN GetItem(Parsed(postResp).cookie, k)
    ELSE GetItem(Parsed(rootResp).cookie, k)

CookieHeader(req) == GetHeader(req.headers, "Cookie")

\* C6: on a confirmed login the Session holds the username given to login
\* and, for each of the two session cookies, the value of the store merged
\* from the site-root response and then the login response (the login
\* response wins); the GET of the Location carried a Cookie header rendered
\* from that merged store.
C6_ConfirmedSession ==
    pc = "Confirmed" =>
        /\ IsSession
        /\ result.session.username = username
        /\ result.session.interpals_sessid = MergedValue(<<"interpals_sessid">>)
        /\ result.session.csrf_cookieV2 = MergedValue(<<"csrf_cookieV2">>)
        /\ CookieHeader(requests[3]) =
              as_string(Update(Update(<<>>, Parsed(rootResp).cookie),
                               Parsed(postResp).cookie))
        /\ CookieHeader(requests[3]) = as_string(cookie)

C6_Witness ==
    /\ pc = "Confirmed"
    /\ HasKey(Parsed(rootResp).cookie, <<"interpals_sessid">>)
    /\ HasKey(Parsed(postResp).cookie, <<"interpals_sessid">>)
    /\ GetItem(Parsed(rootResp).cookie, <<"interpals_sessid">>)
          # GetItem(Parsed(postResp).cookie, <<"interpals_sessid">>)
    /\ ~HasKey(Parsed(postResp).cookie, <<"csrf_cookieV2">>)

\* the number of responses the handshake has received
Answered ==
    (IF rootResp # NoResp THEN 1 ELSE 0) + (IF postResp # NoResp THEN 1 ELSE 0)
        + (IF locResp # NoResp THEN 1 ELSE 0)

C8_Claim ==
    result.type = "WrongUsernameOrPasswordError" =>
        /\ Len(result.args) >= 1
        /\ result.args[1] = <<"Wrong username or password">>

-----------------------------------------------------------------------------
(* Properties of the transport adapter *)

\* C9 as stated: every request issued, by the handshake or by the adapter, is
\* sent with redirect-following disabled.
C9_Original ==
    \A i \in 1..Len(requests) : requests[i].allow_redirects = FALSE

\* C9 amended: the login POST and every GET and POST of the adapter are sent
\* with redirect-following disabled; the two GETs of the handshake (site root
\* and Location) are sent without the argument, that is with the default of
\* the HTTP library, which follows redirects.
C9_RedirectsDisabled ==
    \A i \in 1..Len(requests) :
        /\ i \in {1, 3} => /\ requests[i].method = "GET"
                           /\ requests[i].allow_redirects = TRUE
        /\ i \notin {1, 3} => requests[i].allow_redirects = FALSE

C9_Witness ==
    /\ Len(requests) >= 4
    /\ requests[4].method = "POST"
    /\ requests[4].lib = "aiohttp"
    /\ requests[4].allow_redirects = FALSE

AdapterRedirected == apiCalls >= 1 /\ apiResp.status \in {301, 302}

\* C10 as stated: whenever the adapter was answered with 301 or 302, it
\* returned that response (status and Location header) to its caller, and
\* raised nothing.
C10_Original ==
    AdapterRedirected =>
        /\ apiResult.kind = "response"
        /\ apiResult.resp = apiResp

\* C10 amended: a 301 or 302 answer is never resolved by the adapter (the
\* call issued one request).  Api._get and Api._post return the response as
\* data unless check_auth was asked and the body lacks the marker, which
\* raises APIAuthError.  ApiAsync._request raises APIRedirectError carrying
\* the status and the raw Location header, or the KeyError of the header
\* lookup when the response has no Location header.
C10_RedirectSurfaced ==
    AdapterRedirected =>
        /\ Len(requests) = 3 + apiCalls
        /\ requests[Len(requests)].allow_redirects = FALSE
        /\ mode = "sync" =>
              IF apiArgs.check_auth /\ ~Contains(apiResp.text, "/app/auth/logout")
              THEN apiResult.kind = "error" /\ apiResult.type = "APIAuthError"
              ELSE apiResult.kind = "response" /\ apiResult.resp = apiResp
        /\ mode = "async" =>
              /\ apiResult.kind = "error"
              /\ IF \E i \in 1..Len(apiResp.headers) : apiResp.headers[i][1] = "Location"
                 THEN /\ apiResult.type = "APIRedirectError"
                      /\ apiResult.args =
                            <<apiResp.status, GetHeader(apiResp.headers, "Location")>>
                 ELSE apiResult.type = "KeyError"

C10_Witness ==
    /\ AdapterRedirected
    /\ mode = "async"
    /\ apiArgs.method = "post"
    /\ apiResult.type = "APIRedirectError"
    /\ apiResult.args[1] = 301

\* the adapter was called in check_auth mode
CheckAuthCall == apiCalls >= 1 /\ apiArgs.check_auth

MarkerInBody == Contains(apiResp.text, "/app/auth/logout")

\* C11 as stated: in check_auth mode a response body without the marker
\* makes the request fail with APIAuthError and no body is handed on; a
\* body with the marker is returned to the caller unchanged.
C11_Original ==
    CheckAuthCall =>
        /\ ~MarkerInBody =>
              /\ apiResult.kind = "error"
              /\ apiResult.type = "APIAuthError"
        /\ MarkerInBody =>
              \/ apiResult.kind = "response" /\ apiResult.resp.text = apiResp.text
              \/ apiResult.kind = "body" /\ apiResult.body = apiResp.text

\* C11 amended: in check_auth mode Api._get and Api._post fail with
\* APIAuthError on a body without the marker and return the response with
\* its body unchanged otherwise.  ApiAsync._request does the same for every
\* status but 301 and 302; a 301 or 302 answer raises APIRedirectError (or
\* the KeyError of the Location lookup) before the body is read, with or
\* without the marker.  A failed request hands no body on.
C11_CheckAuth ==
    CheckAuthCall =>
        /\ apiResult.kind = "error" =>
              /\ apiResult.body = <<>>
              /\ apiResult.resp = NoResp
        /\ mode = "sync" =>
              IF MarkerInBody
              THEN apiResult.kind = "response" /\ apiResult.resp = apiResp
              ELSE apiResult.kind = "error" /\ apiResult.type = "APIAuthError"
        /\ (mode = "async" /\ apiResp.status \notin {301, 302}) =>
              IF MarkerInBody
              THEN apiResult.kind = "body" /\ apiResult.body = apiResp.text
              ELSE apiResult.kind = "error" /\ apiResult.type = "APIAuthError"
        /\ (mode = "async" /\ apiResp.status \in {301, 302}) =>
              /\ apiResult.kind = "error"
              /\ apiResult.type \in {"APIRedirectError", "KeyError"}

C11_Witness ==
    /\ CheckAuthCall
    /\ mode = "async"
    /\ apiResp.status = 200
    /\ ~MarkerInBody
    /\ apiResp.text # <<>>
    /\ apiResult.type = "APIAuthError"

-----------------------------------------------------------------------------
(* Properties of Session.dump and Session.load *)

\* the number of atoms of a text equal to a
RECURSIVE CountAtom(_, _)
CountAtom(text, a) ==
    IF text = <<>> THEN 0
    ELSE (IF Head(text) = a THEN 1 ELSE 0) + CountAtom(Tail(text), a)

\* C12: Session.load applied to the document Session.dump wrote yields a
\* Session with the same username, interpals_sessid and csrf_cookieV2, and
\* that document is an object with exactly the three fields.
C12_RoundTrip ==
    /\ storePc = "reloaded" =>
          /\ loaded.kind = "session"
          /\ loaded.session.username = sessObj.username
          /\ loaded.session.interpals_sessid = sessObj.interpals_sessid
          /\ loaded.session.csrf_cookieV2 = sessObj.csrf_cookieV2
    /\ storePc \in {"dumped", "reloaded"} =>
          /\ json_load(file).kind = "object"
          /\ Len(json_load(file).v) = 3
          /\ \A k \in SessionParams : HasKey(json_load(file).v, k)
          /\ \A k \in SessionParams : CountAtom(file, k[1]) = 1
          /\ Head(file) = "{" /\ file[Len(file)] = "}"

C12_Witness ==
    /\ storePc = "reloaded"
    /\ loaded.kind = "session"
    /\ loaded.session.interpals_sessid = <<"\\", "n", "\\">>
    /\ loaded.session.csrf_cookieV2 = <<"a", "\"", ":", " ", "\"", "}">>
    /\ loaded.session.username = <<"\\", "\"">>

\* C13: Session.load raises and returns no Session for every document that
\* lacks one of username, interpals_sessid, csrf_cookieV2, and issues no
\* request.
C13_LoadRejects ==
    (storePc = "loaded"
        /\ \E k \in SessionParams : \A i \in 1..Len(fileKeys) : fileKeys[i] # k) =>
        /\ loaded.kind = "error"
        /\ loaded.session = NoSession
        /\ requests = <<>>

C13_Witness ==
    /\ storePc = "loaded"
    /\ Len(fileKeys) = 2
    /\ fileKeys[1] = <<"csrf_cookieV2">>
    /\ loaded.type = "TypeError"

-----------------------------------------------------------------------------
(* Properties of the cookie store *)

\* the pieces of the merges that went through, in the order of merging
RECURSIVE Flatten(_)
Flatten(lists) ==
    IF lists = <<>> THEN <<>> ELSE Head(lists) \o Flatten(Tail(lists))

MergedPieces ==
    Flatten(IF jarPc = "raised" THEN SubSeq(jarHeaders, 1, Len(jarHeaders) - 1)
            ELSE jarHeaders)

\* the cookies that were merged: what parse_set_cookie made of each piece
MergedCookies == [i \in 1..Len(MergedPieces) |-> parse_set_cookie(MergedPieces[i])]

\* C14: after any sequence of merges each key of the store maps to the value
\* of the last merged cookie with that key, the store has every merged key
\* once, and as_string is the "k=v" pieces in the key order of the store
\* joined by "; ".
C14_LastValueWins ==
    LET n == Len(MergedCookies)
        rendered == Split(as_string(jar), ";")
    IN  /\ \A i \in 1..n : HasKey(jar, MergedCookies[i].key)
        /\ \A j \in 1..Len(jar) :
              /\ \A k \in 1..Len(jar) : jar[j][1] = jar[k][1] => j = k
              /\ \E i \in 1..n :
                    /\ MergedCookies[i].key = jar[j][1]
                    /\ MergedCookies[i].value = jar[j][2]
                    /\ \A l \in (i+1)..n : MergedCookies[l].key # jar[j][1]
        /\ jar # <<>> =>
              /\ Len(rendered) = Len(jar)
              /\ \A j \in 1..Len(jar) :
                    rendered[j] = (IF j = 1 THEN <<>> ELSE <<" ">>)
                                  \o jar[j][1] \o <<"=">> \o jar[j][2]
        /\ jar = <<>> => as_string(jar) = <<>>

C14_Witness ==
    /\ jarPc = "merged"
    /\ Len(jarHeaders) = 2
    /\ jarPrev = << << <<"interpals_sessid">>, <<"a">> >>, << <<"csrf_cookieV2">>, <<"d">> >> >>
    /\ jar = << << <<"interpals_sessid">>, <<"c">> >>, << <<"csrf_cookieV2">>, <<"d">> >> >>
    /\ as_string(jar) = <<"interpals_sessid", "=", "c", ";", " ", "csrf_cookieV2", "=", "d">>

\* C15: a merge of a header with a piece that has no "=" raises; the piece
\* is not skipped and the merge yields no store (the store keeps what it had).
LastHeader == jarHeaders[Len(jarHeaders)]

C15_MalformedRaises ==
    (jarHeaders # <<>> /\ \E i \in 1..Len(LastHeader) : ~Contains(LastHeader[i], "=")) =>
        /\ jarPc = "raised"
        /\ jarErr = "ValueError"
        /\ jar = jarPrev

C15_Witness ==
    /\ Len(jarHeaders) = 2
    /\ LastHeader = << <<"csrf_cookieV2", "=", "d", "e">>, <<"garbage", ";", " ", "path=/">> >>
    /\ jarPc = "raised"
    /\ jar # <<>>

\* the text of a piece that precedes its first ";" (all of it without one)
BeforeSemicolon(piece) ==
    IF Contains(piece, ";") THEN SubSeq(piece, 1, Find(piece, ";")) ELSE piece

\* the key and the value around the first "="
PairKey(piece) ==
    Strip(SubSeq(BeforeSemicolon(piece), 1, Find(BeforeSemicolon(piece), "=")))

PairValue(piece) ==
    Strip(SubSeq(BeforeSemicolon(piece), Find(BeforeSemicolon(piece), "=") + 2,
                 Len(BeforeSemicolon(piece))))

\* C16: after a merge, every piece of the header with a key=value pair before
\* its first ";" has its trimmed key stored with its trimmed value (the last
\* such piece for a key decides).
C16_Claim ==
    jarHeaders # <<>> =>
        \A i \in 1..Len(LastHeader) :
            (/\ Contains(BeforeSemicolon(LastHeader[i]), "=")
             /\ \A l \in (i+1)..Len(LastHeader) :
                   ~Contains(BeforeSemicolon(LastHeader[l]), "=")
                   \/ PairKey(LastHeader[l]) # PairKey(LastHeader[i])) =>
                /\ HasKey(jar, PairKey(LastHeader[i]))
                /\ GetItem(jar, PairKey(LastHeader[i])) = PairValue(LastHeader[i])

-----------------------------------------------------------------------------
(* Properties of search *)

Yields == SelectSeq(sLog, LAMBDA e : e.ev = "yield")

Fetches == SelectSeq(sLog, LAMBDA e : e.ev = "fetch")

\* the positions in sLog of the results-page fetches
FetchAt == SelectSeq([i \in 1..Len(sLog) |-> i], LAMBDA i : sLog[i].ev = "fetch")

YieldsBefore(i) == Len(SelectSeq(SubSeq(sLog, 1, i - 1), LAMBDA e : e.ev = "yield"))

RECURSIVE SumSeq(_)
SumSeq(q) == IF q = <<>> THEN 0 ELSE Head(q) + SumSeq(Tail(q))

\* the rows of the server: those given and those of the pages yet to give
TotalRows == sBackend.served + SumSeq(sBackend.pages)

Min(a, b) == IF a < b THEN a ELSE b

\* C17: with a limit L >= 1 and pages of p1..pn rows, search yields the
\* usernames of the rows in order, never more than min(L, p1+...+pn), and it
\* has yielded exactly min(L, p1+...+pn) when it returns: 20 for pages of
\* 10, 10, 0 rows and the default limit, L when L rows exist.
C17_YieldCount ==
    sArgs.limit >= 1 =>
        /\ Len(Yields) <= Min(sArgs.limit, TotalRows)
        /\ \A i \in 1..Len(Yields) : Yields[i].user = "u" \o ToString(i)
        /\ sPc = "done" => Len(Yields) = Min(sArgs.limit, TotalRows)
        /\ (sPc = "done" /\ sArgs.limit = DefaultLimit /\ Len(Fetches) = 3
              /\ Fetches[1].k = 10 /\ Fetches[2].k = 10) => Len(Yields) = 20
        /\ (sPc = "done" /\ sArgs.limit \in {5, 10} /\ TotalRows = 20) =>
              Len(Yields) = sArgs.limit

C17_Witness ==
    /\ sPc = "done"
    /\ sArgs.limit = DefaultLimit
    /\ Len(Fetches) = 3
    /\ Fetches[1].k = 10 /\ Fetches[2].k = 10 /\ Fetches[3].k = 0
    /\ Len(Yields) = 20
    /\ Yields[20].user = "u20"

\* the requests of a results page, and the offset each carries
PageRequests == SelectSeq(requests, LAMBDA r : Contains(r.url, "offset"))

OffsetOf(r) == SubSeq(r.url, Find(r.url, "offset") + 1, Find(r.url, "offset") + 4)

\* C18: the first results-page request carries offset 0, every later one
\* the number of usernames yielded before it, and the offsets increase
\* strictly from one page request to the next.
C18_Offsets ==
    /\ Len(PageRequests) = Len(FetchAt)
    /\ \A j \in 1..Len(FetchAt) :
          /\ sLog[FetchAt[j]].n = YieldsBefore(FetchAt[j])
          /\ OffsetOf(PageRequests[j])
                = <<"offset", "=", ToString(YieldsBefore(FetchAt[j])), "&">>
          /\ j = 1 => sLog[FetchAt[j]].n = 0
          /\ j > 1 => sLog[FetchAt[j]].n > sLog[FetchAt[j-1]].n

C18_Witness ==
    /\ Len(FetchAt) = 3
    /\ sLog[FetchAt[2]].n = 2
    /\ sLog[FetchAt[3]].n = 5
    /\ OffsetOf(PageRequests[3]) = <<"offset", "=", "5", "&">>

IsRequest(e) == e.ev \in {"form", "geo", "fetch"}

\* C19: no request follows the limit-th yield, an empty page or the close
\* of the generator; a results page is requested only in a next() made when
\* every row fetched so far has been yielded; with limit 5 and a first page
\* of 10 rows only that page is requested.
C19_NoFurtherRequest ==
    /\ \A i \in 1..Len(sLog) : \A j \in (i+1)..Len(sLog) :
          (\/ sLog[i].ev = "yield" /\ YieldsBefore(i) + 1 = sArgs.limit
           \/ sLog[i].ev = "fetch" /\ sLog[i].k = 0
           \/ sLog[i].ev = "close") => ~IsRequest(sLog[j])
    /\ \A j \in 1..Len(FetchAt) :
          /\ YieldsBefore(FetchAt[j])
                = SumSeq([h \in 1..(j-1) |-> sLog[FetchAt[h]].k])
          /\ \E i \in 1..(FetchAt[j] - 1) :
                /\ sLog[i].ev = "next"
                /\ \A h \in (i+1)..(FetchAt[j] - 1) : sLog[h].ev # "yield"
    /\ (sArgs.limit = 5 /\ Fetches # <<>> /\ Fetches[1].k = 10) => Len(Fetches) = 1

C19_Witness ==
    /\ sArgs.limit = 5
    /\ Len(Fetches) = 1
    /\ Fetches[1].k = 10
    /\ Len(Yields) = 5
    /\ sPc = "done"
    /\ sLog[Len(sLog)].ev = "stop"

Sleeps == SelectSeq(sLog, LAMBDA e : e.ev = "sleep")

\* C20: one delay of the configured duration lies between every two
\* successive results-page fetches, and a delay is followed at once by a
\* fetch: there is none before the first fetch, between two yields of one
\* page, or before the return.
C20_OneDelay ==
    /\ \A i \in 1..Len(sLog) :
          sLog[i].ev = "sleep" =>
              /\ sLog[i].n = sArgs.timeout
              /\ i < Len(sLog) /\ sLog[i+1].ev = "fetch"
              /\ FetchAt # <<>> /\ FetchAt[1] < i
    /\ \A j \in 2..Len(FetchAt) :
          Len(SelectSeq(SubSeq(sLog, FetchAt[j-1], FetchAt[j]),
                        LAMBDA e : e.ev = "sleep")) = 1
    /\ Len(Sleeps) = IF FetchAt = <<>> THEN 0 ELSE Len(FetchAt) - 1

C20_Witness ==
    /\ sArgs.timeout = 3
    /\ Len(FetchAt) = 3
    /\ Len(Sleeps) = 2
    /\ Sleeps[2].n = 3
    /\ sPc = "done"
    /\ Len(Yields) = 3

\* C26: search never yields more usernames than limit; with a limit of 0
\* or below it yields none.
C26_Claim ==
    Len(Yields) <= (IF sArgs.limit > 0 THEN sArgs.limit ELSE 0)

-----------------------------------------------------------------------------
(* Properties of the parsers *)

IsDate(e) == \E c \in 1..Len(e.class) : e.class[c] = "pm_date"

IsMessage(e) == ~IsDate(e) /\ \E c \in 1..Len(e.class) : e.class[c] = "pm_msg"

\* the positions of the message divs in the input of parse_messages
MessageAt ==
    SelectSeq([i \in 1..Len(parserRun.input) |-> i],
              LAMBDA i : IsMessage(parserRun.input[i]))

\* C21: parse_messages gives one record for each message div, in document
\* order and none for a date separator; a record has the date of the last
\* date separator before its message (null if none) and the sender of the
\* last sender marker at or before its message (null if none).
C21_CarryForward ==
    (parserRun.pc = "done" /\ parserRun.kind = "messages") =>
        LET input == parserRun.input
            out == parserRun.out
        IN  /\ (\A i \in 1..Len(input) : input[i].thumb # <<"">>) => out.kind = "list"
            /\ out.kind = "list" =>
                  /\ Len(out.items) = Len(MessageAt)
                  /\ \A k \in 1..Len(MessageAt) :
                        LET at == MessageAt[k]
                            dates == { j \in 1..(at - 1) : IsDate(input[j]) }
                            marks == { j \in 1..at : IsMessage(input[j])
                                                      /\ input[j].thumb # <<>> }
                        IN  /\ out.items[k].message.msg_id
                                  = SubSeq(input[at].id, 5, Len(input[at].id))
                            /\ out.items[k].date
                                  = IF dates = {} THEN <<>>
                                    ELSE <<input[CHOOSE j \in dates :
                                                    \A h \in dates : h <= j].text>>
                            /\ out.items[k].user
                                  = IF marks = {} THEN <<>>
                                    ELSE input[CHOOSE j \in marks :
                                                  \A h \in marks : h <= j].thumb

C21_Witness ==
    /\ parserRun.pc = "done"
    /\ parserRun.kind = "messages"
    /\ Len(parserRun.input) = 4
    /\ IsDate(parserRun.input[1])
    /\ parserRun.out.kind = "list"
    /\ Len(parserRun.out.items) = 3
    /\ [k \in 1..3 |-> parserRun.out.items[k].message.text] = << <<"A">>, <<"B">>, <<"C">> >>
    /\ [k \in 1..3 |-> parserRun.out.items[k].user] = << <<"/u1">>, <<"/u1">>, <<"/u2">> >>
    /\ \A k \in 1..3 : parserRun.out.items[k].date = << <<"Mon">> >>

\* the header line of the profile box without its "y.o.", split on ", "
HeaderPieces ==
    Split(SelectSeq(Strip(Split(parserRun.input, "\n")[3]), LAMBDA a : a # "y.o."), ", ")

\* C22: two pieces give the name and the integer age; one piece of digits
\* gives a null name and that age; one piece that is no number gives that
\* name and a null age; none of these raises.
C22_Claim ==
    (parserRun.pc = "done" /\ parserRun.kind = "name_age_sex") =>
        LET out == parserRun.out
            na == HeaderPieces
        IN  /\ (Len(na) = 2 /\ IntOf(na[2]).ok) =>
                  /\ out.kind = "value"
                  /\ out.name = <<na[1]>>
                  /\ out.age = <<IntOf(na[2]).v>>
            /\ (Len(na) = 1 /\ IntOf(na[1]).ok) =>
                  /\ out.kind = "value"
                  /\ out.name = <<>>
                  /\ out.age = <<IntOf(na[1]).v>>
            /\ (Len(na) = 1 /\ na[1] # <<>> /\ ~IntOf(na[1]).ok) =>
                  /\ out.kind = "value"
                  /\ out.name = <<na[1]>>
                  /\ out.age = <<>>

-----------------------------------------------------------------------------
(* Properties of the methods of Api and ApiAsync *)

\* the outcome of a call without the library-specific wording of its message
SameOutcome(a, b) == a.kind = b.kind /\ a.type = b.type /\ a.value = b.value

SameRequests(a, b) ==
    /\ Len(a) = Len(b)
    /\ \A i \in 1..Len(a) :
          /\ a[i].method = b[i].method
          /\ a[i].url = b[i].url
          /\ a[i].headers = b[i].headers
          /\ a[i].data = b[i].data
          /\ a[i].allow_redirects = b[i].allow_redirects

\* C23: for the same session and the same scripted response, a method of Api
\* and its counterpart of ApiAsync issue the same requests and end in the
\* same outcome: the same value, or an exception of the same type.
C23_Claim ==
    (methodRun.pc = "ready" /\ methodRun.sync.kind # "none"
                            /\ methodRun.async.kind # "none")
        => /\ SameRequests(methodRun.syncReq, methodRun.asyncReq)
           /\ SameOutcome(methodRun.sync, methodRun.async)

\* C25: when the server's response to chat_send carries the "error" marker,
\* the call raises APIError, in the synchronous and in the asynchronous mode.
C25_Claim ==
    (/\ methodRun.pc = "ready"
     /\ methodRun.method = "chat_send"
     /\ methodRun.resp.status = 200
     /\ Contains(methodRun.resp.text, "\"error\""))
        => /\ methodRun.sync.kind # "none"
                => methodRun.sync.kind = "error" /\ methodRun.sync.type = "APIError"
           /\ methodRun.async.kind # "none"
                => methodRun.async.kind = "error" /\ methodRun.async.type = "APIError"
-----------------------------------------------------------------------------
(* Properties of chat *)

ChatThreads(page) == SelectSeq(page.text, LAMBDA a : a \in {"t1", "t2", "t3", "t4"})

\* the response to the k-th more_threads POST
ChatPage(k) ==
    chatRun.pages[IF k < Len(chatRun.pages) THEN k ELSE Len(chatRun.pages)]

\* the threads of the pages from the k-th on, up to the first empty page and
\* over n pages at most
RECURSIVE Supplied(_, _)
Supplied(k, n) ==
    IF n <= 0 \/ ChatThreads(ChatPage(k)) = <<>> THEN <<>>
    ELSE ChatThreads(ChatPage(k)) \o Supplied(k + 1, n - 1)

\* the threads parsed from the pages before the k-th
RECURSIVE ParsedBefore(_)
ParsedBefore(k) ==
    IF k <= 1 THEN 0 ELSE ParsedBefore(k - 1) + Len(ChatThreads(ChatPage(k - 1)))

ChatReturned == chatRun.pc = "done" /\ chatRun.out.kind = "value"

ChatPosts == SelectSeq(requests, LAMBDA r : r.method = "POST")

-----------------------------------------------------------------------------
(* Properties of operations that run at the same time *)

\* the frame of an operation after n steps of running it alone
RECURSIVE Alone(_, _)
Alone(f, n) ==
    IF n = 0 \/ f.pc = "done" THEN f
    ELSE Alone(OpStep(IF mode = "sync" THEN "requests" ELSE "aiohttp", f), n - 1)

Authenticated(f) == f.kind \in {"view", "search"}

====
